---- MODULE Spec2Model ----
(***************************************************************************)
(* Model of the evaluation pipeline of new-eval-backend: the planner       *)
(* fan-out (PlannerAgent.run over SemanticKernelService.run_plugin_function*)
(* and the CompletionPlugin), the conversation log and the agent-results   *)
(* container of CosmosService, the two dispatchers                         *)
(* (EvaluationOrchestrator.execute and the /compare endpoint), the         *)
(* Event Grid publisher and the event consumer (process_agent_event).      *)
(*                                                                         *)
(* Texts are sequences of tokens.  A token is a piece of text that the     *)
(* code treats as a unit: a word, a blank, "<think>", "</think>".          *)
(***************************************************************************)
EXTENDS Integers, Sequences, FiniteSets, TLC

\* ---------------------------------------------------------------- bounds
MaxModels == 2

MaxElapsed == 1

MaxClock == 1

MaxDeliveries == 3

MaxSaves == 3

\* save_conversation_message calls made by the writers of the log
MaxWrites == 3

\* ---------------------------------------------------------------- inputs
\* config.py get_model_config: ids served by the Azure AI Inference client,
\* ids served by the AzureOpenAI client, and an id without configuration
\* (served by the CompletionPlugin).
FoundryModels == {"phi4"}

ConfiguredModels == {"phi4", "gpt4"}

ModelIds == {"phi4", "gpt4", "custom"}

RECURSIVE SeqsOver(_, _)
SeqsOver(S, n) ==
  IF n = 0 THEN {<<>>}
  ELSE LET shorter == SeqsOver(S, n - 1)
       IN  shorter \cup {Append(s, x) : s \in {t \in shorter : Len(t) = n - 1}, x \in S}

Range(s) == {s[i] : i \in DOMAIN s}

\* lists of distinct model identifiers, as CompareRequest.models carries them
ModelLists ==
  {l \in SeqsOver(ModelIds, MaxModels) : Len(l) >= 1 /\ Cardinality(Range(l)) = Len(l)}

Prompts == {<<"a">>, <<"q", " ", "a">>}

\* completion texts a backend may return
Contents ==
  { <<"a">>,
    <<" ", "a">>,
    <<"<think>", "c", "</think>", "b">>,
    <<"<think>", "b">> }

ThreadId == "t1"

\* identifiers are sequences of characters
SessionId == <<"s", "1">>

SessionIds == {<<"s", "1">>, <<"s", " ", "1">>}

\* result payloads a downstream agent may compute for an event
Variants == {"v1", "v2"}

AgentKinds == {"evaluator", "judge", "reflection"}

\* the thread of a round and the thread of a later round of the same session
ThreadIds == {"t1", "t2"}

\* results a caller of save_agent_results may hand in: an empty mapping, or
\* one entry per model
Payloads == {<<>>, ("gpt4" :> <<"v1">>)}

\* ---------------------------------------------------------------- texts
CharLen(tok) ==
  CASE tok = "<think>" -> 7
    [] tok = "</think>" -> 8
    [] tok = "[ERROR]" -> 7
    [] tok = "Error:" -> 6
    [] tok = "Error with" -> 10
    [] OTHER -> 1

RECURSIVE TextLen(_)
TextLen(s) == IF s = <<>> THEN 0 ELSE CharLen(Head(s)) + TextLen(Tail(s))

IsSpace(tok) == tok \in {" ", "\n"}

RECURSIVE RemoveThink(_)
RemoveThink(s) ==
  IF s = <<>> THEN <<>>
  ELSE IF Head(s) = "<think>" /\ \E j \in 2..Len(s) : s[j] = "</think>"
       THEN LET j == CHOOSE k \in 2..Len(s) :
                       /\ s[k] = "</think>"
                       /\ \A i \in 2..(k - 1) : s[i] # "</think>"
            IN  RemoveThink(SubSeq(s, j + 1, Len(s)))
       ELSE <<Head(s)>> \o RemoveThink(Tail(s))

RECURSIVE LStrip(_)
LStrip(s) == IF s # <<>> /\ IsSpace(Head(s)) THEN LStrip(Tail(s)) ELSE s

RECURSIVE RStrip(_)
RStrip(s) ==
  IF s # <<>> /\ IsSpace(s[Len(s)]) THEN RStrip(SubSeq(s, 1, Len(s) - 1)) ELSE s

Strip(s) == RStrip(LStrip(s))

clean_think_tags(content) ==
  IF content = <<>> THEN <<>> ELSE Strip(RemoveThink(content))

\* the three error texts the code builds; the exception message is left out
PlannerErrorText == <<"[ERROR]">>

ServiceErrorText == <<"Error:">>

ClientErrorText == <<"Error with">>

IsErrorSentinel(text) ==
  text \in {PlannerErrorText, ServiceErrorText, ClientErrorText}

\* dict.get(key, default)
Get(d, k, default) == IF k \in DOMAIN d THEN d[k] ELSE default

EmptyDict == <<>>

VARIABLES
  threads,      \* threads container: model id -> thread document of ThreadId
  storeUp,      \* whether the document store answers during the round
  pc,           \* position of the request handler
  entry,        \* "execute" (orchestrator) or "compare" (endpoint)
  models,       \* requested model list
  prompt,       \* prompt handed to the planner
  idx,          \* loop index of the running loop
  completions,  \* PlannerAgent.run: model id -> PlannerOutput
  outcome,      \* what the gateway did for each model called so far
  threadsAtStart, \* threads as they were when the round started
  aggregated,   \* aggregated_responses of the dispatcher
  useCase,      \* use_case_id of the round
  sessionDoc,   \* sessions container: the session's metadata document
  vectors,      \* vector container: memory records, in order of creation
  publishCalls, \* send_agent_trigger_event calls made, in order
  agentResults, \* agent_results container: <<partition, id>> -> document
  clock,        \* int(time.time())
  saveCalls,    \* save_agent_results calls made, in order
  deliveries,   \* number of process_agent_event runs
  lastDelivery, \* the latest process_agent_event run and what it did
  lastCall,     \* the latest batch delivery, upsert or read and its response
  judge,        \* the call of JudgeAgent.run: its backend's answer and its results
  evaluator,    \* the call of EvaluatorAgent.run: its backends' fates and its results
  reflection,   \* the reflection event being processed: its memory and its results
  saves         \* the save_conversation_message calls of the writers of the log

vars ==
  <<threads, storeUp, pc, entry, models, prompt, idx, completions, outcome,
    threadsAtStart, aggregated, useCase, sessionDoc, vectors, publishCalls,
    agentResults, clock, saveCalls, deliveries, lastDelivery, lastCall, judge,
    evaluator, reflection, saves>>

roundVars ==
  <<threads, storeUp, pc, entry, models, prompt, idx, completions, outcome,
    threadsAtStart, aggregated, useCase, sessionDoc, vectors, publishCalls>>

storeVars == <<agentResults, clock, saveCalls, deliveries, lastDelivery, lastCall>>

agentVars == <<judge, evaluator, reflection, saves>>

\* F applied to a value that is computed once
With(value, F(_)) == CHOOSE result \in {F(x) : x \in {value}} : TRUE

\* ------------------------------------------------------- conversation log
NoDoc == [messages |-> <<>>]

Message(role, content, token_count) ==
  [role |-> role, content |-> content, timestamp |-> clock, tokenCount |-> token_count]

\* the duplicate guard of save_conversation_message: the log is not empty,
\* its last message has this content, and the new message is an assistant's
is_duplicate_never(item, role, content) == FALSE

is_duplicate(item, role, content) ==
  /\ item.messages # <<>>
  /\ item.messages[Len(item.messages)].content = content
  /\ role = "assistant"

\* the document read, with the message appended and the counters advanced
append_message_promptTokensOnly(item, role, content, token_count) ==
  [created |-> item.created,
   messages |-> Append(item.messages, Message(role, content, token_count)),
   metadata |->
     [tokenCount |-> item.metadata.tokenCount + token_count,
      lastUpdated |-> clock,
      promptTokens |-> item.metadata.promptTokens
                         + (IF role = "user" THEN token_count ELSE 0),
      completionTokens |-> item.metadata.completionTokens]]

append_message(item, role, content, token_count) ==
  [created |-> item.created,
   messages |-> Append(item.messages, Message(role, content, token_count)),
   metadata |->
     [tokenCount |-> item.metadata.tokenCount + token_count,
      lastUpdated |-> clock,
      promptTokens |-> item.metadata.promptTokens
                         + (IF role = "user" THEN token_count ELSE 0),
      completionTokens |-> item.metadata.completionTokens
                         + (IF role = "user" THEN 0 ELSE token_count)]]

\* the document of a thread that has no document yet
new_thread(role, content, token_count) ==
  [created |-> clock,
   messages |-> <<Message(role, content, token_count)>>,
   metadata |->
     [tokenCount |-> token_count,
      lastUpdated |-> clock,
      promptTokens |-> IF role = "user" THEN token_count ELSE 0,
      completionTokens |-> IF role = "assistant" THEN token_count ELSE 0]]

\* CosmosService.save_conversation_message on the document doc of one
\* (model, thread), run without another writer in between; gives the status
\* and the document afterwards
save_conversation_message(doc, up, role, content, token_count) ==
  IF ~up THEN [status |-> "error", doc |-> doc]
  ELSE IF doc # NoDoc
  THEN IF is_duplicate(doc, role, content)
       THEN [status |-> "duplicate_skipped", doc |-> doc]
       ELSE [status |-> "updated",
             doc |-> append_message(doc, role, content, token_count)]
  ELSE [status |-> "created", doc |-> new_thread(role, content, token_count)]

\* ------------------------------------------------------------- gateway
None == "None"

\* what a backend call can do: answer, raise inside the client call, fail
\* elsewhere inside run_plugin_function, fail before its try block, or
\* never return
Outcome(kind, content, elapsed) ==
  [kind |-> kind, content |-> content, elapsed |-> elapsed]

Outcomes(model_id) ==
  {Outcome("success", c, e) : c \in Contents, e \in 0..MaxElapsed}
    \cup (IF model_id \in ConfiguredModels
          THEN {Outcome("client_error", <<>>, e) : e \in 0..MaxElapsed}
          ELSE {Outcome("client_error", <<>>, 0)})
    \cup {Outcome(k, <<>>, 0) : k \in {"service_error", "raise", "hang"}}

Metrics(latency, prompt_tokens, completion_tokens, total_tokens) ==
  [responseTime |-> latency, promptTokens |-> prompt_tokens,
   completionTokens |-> completion_tokens, totalTokens |-> total_tokens]

\* token counts: len(text) // 4 for the AI Inference client, response.usage
\* (the backend's own count, one per token) for the AzureOpenAI client
tokens_of(model_id, o, text) ==
  IF o.kind # "success" THEN 0
  ELSE IF model_id \in FoundryModels THEN TextLen(text) \div 4 ELSE Len(text)

\* the two writes both completion paths make: the prompt, then the answer
SavePromptAndAnswer(doc, up, user_text, p_tokens, answer, c_tokens) ==
  save_conversation_message(
    save_conversation_message(doc, up, "user", user_text, p_tokens).doc,
    up, "assistant", answer, c_tokens).doc

\* CompletionPlugin.run_completion, reached for a model without configuration
run_completion(model_id, user_prompt, o, doc, up) ==
  IF o.kind = "success"
  THEN LET pt == Len(user_prompt)
           ct == Len(o.content)
       IN  [raised |-> FALSE,
            payload |-> [content |-> o.content, model |-> model_id,
                         metrics |-> Metrics(o.elapsed, pt, ct, pt + ct),
                         safety |-> EmptyDict, id |-> ThreadId],
            doc |-> SavePromptAndAnswer(doc, up, user_prompt, pt, o.content, ct)]
  ELSE [raised |-> FALSE,
        payload |-> [error |-> "e", status |-> "failed"],
        doc |-> doc]

\* SemanticKernelService.run_plugin_function for CompletionPlugin.run_completion
run_plugin_function(model_id, user_prompt, o, doc, up) ==
  IF o.kind = "raise"
  THEN [raised |-> TRUE, payload |-> EmptyDict, doc |-> doc]
  ELSE IF o.kind = "service_error"
  THEN [raised |-> FALSE,
        payload |-> [error |-> "e", content |-> ServiceErrorText],
        doc |-> doc]
  ELSE IF model_id \in ConfiguredModels
  THEN LET content == IF o.kind = "success" THEN o.content ELSE ClientErrorText
           pt == tokens_of(model_id, o, user_prompt)
           ct == tokens_of(model_id, o, content)
       IN  [raised |-> FALSE,
            payload |-> [content |-> content, model |-> model_id,
                         metrics |-> Metrics(o.elapsed, pt, ct, pt + ct),
                         safety |-> EmptyDict, id |-> ThreadId],
            doc |-> SavePromptAndAnswer(doc, up, user_prompt, pt, content, ct)]
  ELSE run_completion(model_id, user_prompt, o, doc, up)

\* ------------------------------------------------------------- planner
PlannerOutput(model_id, content, response_time, metrics, safety) ==
  [model_id |-> model_id, content |-> content, response_time |-> response_time,
   metrics |-> metrics, safety |-> safety]

\* one iteration of the loop of PlannerAgent.run on the mapping built so
\* far; gives the mapping and the thread document afterwards
PlannerIteration_dropsFailedModel(mapping, model_id, user_prompt, o, doc, up) ==
  LET r == run_plugin_function(model_id, user_prompt, o, doc, up)
  IN  IF r.raised
      THEN [completions |-> mapping, doc |-> doc]
      ELSE LET parsed == r.payload
               content == Get(parsed, "content", <<>>)
               metrics == Get(parsed, "metrics", EmptyDict)
               saved == save_conversation_message(r.doc, up, "assistant", content,
                                                  Get(metrics, "totalTokens", 0))
           IN  [completions |->
                  (model_id :> PlannerOutput(model_id, content,
                                             Get(metrics, "responseTime", 0), metrics,
                                             Get(parsed, "safety", None))) @@ mapping,
                doc |-> saved.doc]

PlannerIteration(mapping, model_id, user_prompt, o, doc, up) ==
  LET r == run_plugin_function(model_id, user_prompt, o, doc, up)
  IN  IF r.raised
      THEN [completions |->
              (model_id :> PlannerOutput(model_id, PlannerErrorText, 0, EmptyDict, None))
                @@ mapping,
            doc |-> doc]
      ELSE LET parsed == r.payload
               content == Get(parsed, "content", <<>>)
               metrics == Get(parsed, "metrics", EmptyDict)
               safety == Get(parsed, "safety", None)
               latency == Get(metrics, "responseTime", 0)
               saved == save_conversation_message(r.doc, up, "assistant", content,
                                                  Get(metrics, "totalTokens", 0))
           IN  [completions |->
                  (model_id :> PlannerOutput(model_id, content, latency, metrics, safety))
                    @@ mapping,
                doc |-> saved.doc]

\* ---------------------------------------------------------- dispatchers
\* CompareRequest: prompt, use_case_id and context
CompareRequests ==
  {[prompt |-> p, use_case_id |-> u, context |-> c] :
     p \in Prompts, u \in {"1", "2"}, c \in {<<>>, <<"k">>}}

full_prompt(request) ==
  IF request.use_case_id = "2" /\ request.context # <<>>
  THEN request.context \o <<"\n\n">> \o request.prompt
  ELSE request.prompt

AgentOrder_repeatsEvaluator(e) ==
  IF e = "execute" THEN <<"reflection", "evaluator", "evaluator">>
                   ELSE <<"evaluator", "evaluator", "reflection">>

AgentOrder(e) ==
  IF e = "execute" THEN <<"reflection", "evaluator", "judge">>
                   ELSE <<"evaluator", "judge", "reflection">>

event_payload(agent) ==
  [agent |-> agent, session_id |-> SessionId, thread_id |-> ThreadId,
   use_case_id |-> useCase, prompt |-> prompt, responses |-> aggregated,
   timestamp |-> clock]

RoundInit ==
  /\ threads = [m \in ModelIds |-> NoDoc]
  /\ storeUp = TRUE
  /\ pc = "idle"
  /\ entry = "none"
  /\ models = <<>>
  /\ prompt = <<>>
  /\ idx = 0
  /\ completions = <<>>
  /\ outcome = <<>>
  /\ threadsAtStart = threads
  /\ aggregated = <<>>
  /\ useCase = "1"
  /\ sessionDoc = NoDoc
  /\ vectors = <<>>
  /\ publishCalls = <<>>

\* EvaluationOrchestrator.execute is called
StartExecute ==
  /\ pc = "idle"
  /\ \E l \in ModelLists, p \in Prompts, u \in {"1", "2"}, up \in BOOLEAN :
       /\ models' = l
       /\ prompt' = p
       /\ useCase' = u
       /\ storeUp' = up
  /\ entry' = "execute"
  /\ pc' = "planner"
  /\ idx' = 1
  /\ UNCHANGED <<threads, completions, outcome, threadsAtStart, aggregated,
                 sessionDoc, vectors, publishCalls>>
  /\ UNCHANGED <<storeVars, agentVars>>

\* POST /compare is received
StartCompare ==
  /\ pc = "idle"
  /\ \E l \in ModelLists, request \in CompareRequests, up \in BOOLEAN :
       /\ models' = l
       /\ prompt' = full_prompt(request)
       /\ useCase' = request.use_case_id
       /\ storeUp' = up
  /\ entry' = "compare"
  /\ pc' = "planner"
  /\ idx' = 1
  /\ UNCHANGED <<threads, completions, outcome, threadsAtStart, aggregated,
                 sessionDoc, vectors, publishCalls>>
  /\ UNCHANGED <<storeVars, agentVars>>

\* aggregated_responses as execute builds it from the planner's output
ExecuteAggregate_skipsErrors(planner_output) ==
  [m \in {x \in DOMAIN planner_output : ~IsErrorSentinel(planner_output[x].content)} |->
     [content |-> planner_output[m].content, metrics |-> planner_output[m].metrics]]

ExecuteAggregate(planner_output) ==
  [m \in DOMAIN planner_output |->
     [content |-> planner_output[m].content, metrics |-> planner_output[m].metrics]]

\* one iteration of the planner's loop: the gateway call for models[idx],
\* the planner's own write and the entry of the mapping
PlannerStep ==
  /\ pc = "planner"
  /\ LET model_id == models[idx]
     IN \E o \in Outcomes(model_id) :
          /\ outcome' = (model_id :> o) @@ outcome
          /\ IF o.kind = "hang"
             THEN /\ pc' = "hung"
                  /\ UNCHANGED <<threads, completions, idx, aggregated>>
             ELSE LET it == PlannerIteration(completions, model_id, prompt, o,
                                             threads[model_id], storeUp)
                      out == it.completions
                  IN  /\ threads' = [threads EXCEPT ![model_id] = it.doc]
                      /\ completions' = out
                      /\ IF idx < Len(models)
                         THEN /\ idx' = idx + 1
                              /\ pc' = "planner"
                              /\ UNCHANGED aggregated
                         ELSE /\ idx' = 1
                              /\ IF entry = "execute"
                                 THEN /\ pc' = "publish"
                                      /\ aggregated' = ExecuteAggregate(out)
                                 ELSE /\ pc' = "aggregate"
                                      /\ UNCHANGED aggregated
  /\ UNCHANGED <<storeUp, entry, models, prompt, threadsAtStart, useCase,
                 sessionDoc, vectors, publishCalls>>
  /\ UNCHANGED <<storeVars, agentVars>>

\* one iteration of the loop of compare_models over planner_output: clean
\* the text, write it to the thread, the session and the memory
CompareStep ==
  /\ pc = "aggregate"
  /\ LET model_id == models[idx]
         result == completions[model_id]
         cleaned_content == clean_think_tags(result.content)
         total == Get(result.metrics, "totalTokens", 0)
         saved == save_conversation_message(threads[model_id], storeUp, "assistant",
                                            cleaned_content, total)
         \* MemoryPlugin.save_conversation writes the same message again
         memory == save_conversation_message(saved.doc, storeUp, "assistant",
                                             cleaned_content, total)
     IN /\ completions' = [completions EXCEPT ![model_id].content = cleaned_content]
        /\ aggregated' =
             (model_id :> PlannerOutput(model_id, cleaned_content, result.response_time,
                                        result.metrics, result.safety)) @@ aggregated
        /\ threads' = [threads EXCEPT ![model_id] = memory.doc]
        /\ sessionDoc' =
             IF storeUp
             THEN [sessionId |-> SessionId,
                   metadata |-> [model_id |-> model_id, content |-> cleaned_content,
                                 role |-> "assistant", timestamp |-> clock,
                                 token_count |-> total,
                                 response_time |-> result.response_time,
                                 use_case_id |-> useCase],
                   timestamp |-> clock, lastUpdated |-> clock]
             ELSE sessionDoc
        /\ vectors' =
             IF storeUp
             THEN Append(vectors,
                         [collection |-> <<"model-memory", model_id>>,
                          model_id |-> model_id, text |-> cleaned_content,
                          metadata |-> [thread_id |-> ThreadId, model_id |-> model_id,
                                        timestamp |-> clock, type |-> "assistant"]])
             ELSE vectors
  /\ IF idx < Len(models)
     THEN idx' = idx + 1 /\ pc' = "aggregate"
     ELSE idx' = 1 /\ pc' = "publish"
  /\ UNCHANGED <<storeUp, entry, models, prompt, outcome, threadsAtStart, useCase,
                 publishCalls>>
  /\ UNCHANGED <<storeVars, agentVars>>

\* send_agent_trigger_event: TRUE when the POST succeeded, FALSE when it
\* raised or answered with an error status
send_agent_trigger_event_raises(payload, posted) ==
  [payload |-> payload, posted |-> posted, raised |-> ~posted, result |-> posted]

send_agent_trigger_event(payload, posted) ==
  [payload |-> payload, posted |-> posted, raised |-> FALSE, result |-> posted]

\* one iteration of the publishing loop of the dispatcher: execute catches
\* what the publisher raises, compare_models lets it end the request
PublishStep ==
  /\ pc = "publish"
  /\ \E posted \in BOOLEAN :
       LET call == send_agent_trigger_event(event_payload(AgentOrder(entry)[idx]), posted)
       IN  /\ publishCalls' = Append(publishCalls, call)
           /\ IF call.raised /\ entry = "compare"
              THEN idx' = idx /\ pc' = "failed"
              ELSE IF idx < Len(AgentOrder(entry))
              THEN idx' = idx + 1 /\ pc' = "publish"
              ELSE idx' = idx /\ pc' = "done"
  /\ UNCHANGED <<threads, storeUp, entry, models, prompt, completions, outcome,
                 threadsAtStart, aggregated, useCase, sessionDoc, vectors>>
  /\ UNCHANGED <<storeVars, agentVars>>

\* ------------------------------------------------------ aggregation store
LegalIdChars == {"s", "1", "-", "_"}

\* CosmosService._sanitize_id: re.sub(r"[^a-zA-Z0-9-_]", "-", raw_id)
sanitize_id(raw_id) ==
  [i \in DOMAIN raw_id |-> IF raw_id[i] \in LegalIdChars THEN raw_id[i] ELSE "-"]

\* the agent_results container: a document is addressed by its partition
\* key (/session_id) and its id
Key(doc) == <<doc.session_id, doc.id>>

\* container.create_item: refuses an id that exists in the partition
create_item_replacesPartition(store, doc, up) ==
  IF ~up THEN [status |-> "error", store |-> store]
  ELSE IF Key(doc) \in DOMAIN store THEN [status |-> "conflict", store |-> store]
  ELSE LET others == {k \in DOMAIN store : k[1] # doc.session_id}
       IN  [status |-> "created",
            store |-> (Key(doc) :> doc) @@ [k \in others |-> store[k]]]

create_item(store, doc, up) ==
  IF ~up THEN [status |-> "error", store |-> store]
  ELSE IF Key(doc) \in DOMAIN store THEN [status |-> "conflict", store |-> store]
  ELSE [status |-> "created", store |-> (Key(doc) :> doc) @@ store]

\* CosmosService.save_agent_results; an id f"{agent}-{x}" is the pair <<agent, x>>
save_agent_results_resetsTimestamp(store, up, session_id, thread_id, agent, use_case_id, results) ==
  LET doc_id == <<agent, sanitize_id(session_id)>>
      doc == [id |-> doc_id, session_id |-> session_id, thread_id |-> thread_id,
              agent |-> agent, use_case_id |-> use_case_id, results |-> results,
              timestamp |-> clock, lastUpdated |-> clock]
  IN  IF ~up THEN [status |-> "error", store |-> store]
      ELSE IF <<session_id, doc_id>> \in DOMAIN store
      THEN [status |-> "updated", id |-> doc_id,
            store |-> [store EXCEPT ![<<session_id, doc_id>>] = doc]]
      ELSE [status |-> "created", id |-> doc_id,
            store |-> (<<session_id, doc_id>> :> doc) @@ store]

save_agent_results(store, up, session_id, thread_id, agent, use_case_id, results) ==
  LET doc_id == <<agent, sanitize_id(session_id)>>
      doc == [id |-> doc_id, session_id |-> session_id, thread_id |-> thread_id,
              agent |-> agent, use_case_id |-> use_case_id, results |-> results,
              timestamp |-> clock, lastUpdated |-> clock]
  IN  IF ~up THEN [status |-> "error", store |-> store]
      ELSE IF <<session_id, doc_id>> \in DOMAIN store
      THEN LET existing == store[<<session_id, doc_id>>]
           IN  [status |-> "updated", id |-> doc_id,
                store |-> [store EXCEPT ![<<session_id, doc_id>>] =
                                          [doc EXCEPT !.timestamp = existing.timestamp]]]
      ELSE [status |-> "created", id |-> doc_id,
            store |-> (<<session_id, doc_id>> :> doc) @@ store]

\* CosmosService.get_agent_result: the documents the query matches; the code
\* answers with the first of them, or None
Matches(store, session_id, agent, thread_id) ==
  {k \in DOMAIN store :
     /\ store[k].session_id = session_id
     /\ store[k].agent = agent
     /\ (thread_id # "" => store[k].thread_id = thread_id)}

\* ------------------------------------------------------------- consumers
\* events as a dispatcher publishes them, and events lacking a field or
\* naming an agent that does not exist
Responses ==
  ("gpt4" :> [content |-> <<"a">>, metrics |-> EmptyDict])
    @@ ("custom" :> [content |-> <<"b">>, metrics |-> EmptyDict])

Event(agent, session_id, responses, ts) ==
  [agent |-> agent, session_id |-> session_id, thread_id |-> ThreadId,
   use_case_id |-> "1", prompt |-> <<"a">>, responses |-> responses, timestamp |-> ts]

Events ==
  {Event(a, sid, Responses, ts) : a \in AgentKinds, sid \in SessionIds, ts \in 0..1}
    \cup {Event("summary", SessionId, Responses, 0),
          Event("", SessionId, Responses, 0),
          Event("judge", SessionId, <<>>, 0)}

\* what the agent of the event's kind does: it raises, or it returns a result
\* for the models of the event
AgentRuns(event) ==
  {[raised |-> TRUE, results |-> <<>>]}
    \cup {[raised |-> FALSE,
           results |-> [m \in DOMAIN event.responses |-> <<event.agent, v>>]] :
            v \in Variants}

\* events in one posted list of arbitrary data
MaxBatch == 2

\* event data that is no mapping: a JSON string
NonMapping == [type |-> "str"]

IsMapping(event) == "type" \notin DOMAIN event

process_agent_event_anyAgent(store, event, run, up) ==
  IF ~IsMapping(event) THEN [status |-> "raised", store |-> store]
  ELSE IF \/ event.agent = "" \/ event.session_id = <<>> \/ event.thread_id = ""
     \/ event.prompt = <<>> \/ event.responses = <<>>
  THEN [status |-> "missing_fields", store |-> store]
  ELSE IF run.raised
  THEN [status |-> "agent_failed", store |-> store]
  ELSE create_item(store,
                   [id |-> <<event.agent, event.session_id>>,
                    session_id |-> event.session_id, thread_id |-> event.thread_id,
                    use_case_id |-> event.use_case_id, agent |-> event.agent,
                    results |-> run.results, timestamp |-> event.timestamp],
                   up)

\* process_agent_event; every exception is caught and logged by a handler
\* that names the local agent in its message. When event.get itself fails,
\* agent is not yet bound, and the handler's own exception leaves the function
process_agent_event(store, event, run, up) ==
  IF ~IsMapping(event) THEN [status |-> "raised", store |-> store]
  ELSE IF \/ event.agent = "" \/ event.session_id = <<>> \/ event.thread_id = ""
     \/ event.prompt = <<>> \/ event.responses = <<>>
  THEN [status |-> "missing_fields", store |-> store]
  ELSE IF event.agent \notin {"evaluator", "judge", "reflection"}
  THEN [status |-> "unsupported_agent", store |-> store]
  ELSE IF run.raised
  THEN [status |-> "agent_failed", store |-> store]
  ELSE LET cosmos_result ==
             [id |-> <<event.agent, event.session_id>>,
              session_id |-> event.session_id, thread_id |-> event.thread_id,
              use_case_id |-> event.use_case_id, agent |-> event.agent,
              results |-> run.results, timestamp |-> event.timestamp]
       IN  create_item(store, cosmos_result, up)

StoreIdle ==
  /\ agentResults = <<>>
  /\ clock = 0
  /\ saveCalls = <<>>
  /\ deliveries = 0
  /\ lastDelivery = [status |-> "none"]
  /\ lastCall = [op |-> "none"]

\* time passes
Tick ==
  /\ clock < MaxClock
  /\ clock' = clock + 1
  /\ UNCHANGED <<agentResults, saveCalls, deliveries, lastDelivery, lastCall>>
  /\ UNCHANGED <<roundVars, agentVars>>

\* a caller upserts a result through CosmosService.save_agent_results
SaveAgentResults ==
  /\ Len(saveCalls) < MaxSaves
  /\ \E sid \in SessionIds, agent \in AgentKinds, v \in Variants, up \in BOOLEAN :
       LET r == save_agent_results(agentResults, up, sid, ThreadId, agent, "1", v)
       IN  /\ agentResults' = r.store
           /\ saveCalls' = Append(saveCalls,
                                  [session_id |-> sid, agent |-> agent, results |-> v,
                                   now |-> clock, status |-> r.status])
  /\ UNCHANGED <<clock, deliveries, lastDelivery, lastCall>>
  /\ UNCHANGED <<roundVars, agentVars>>

\* POST /eventgrid delivers one event to process_agent_event; the bus may
\* deliver any published event again and in any order
DeliverEvent ==
  /\ deliveries < MaxDeliveries
  /\ \E event \in Events, up \in BOOLEAN :
       \E run \in AgentRuns(event) :
         LET r == process_agent_event(agentResults, event, run, up)
         IN  /\ agentResults' = r.store
             /\ lastDelivery' =
                  [status |-> r.status, session_id |-> event.session_id,
                   agent |-> event.agent, timestamp |-> event.timestamp,
                   results |-> run.results,
                   existed |-> Matches(agentResults, event.session_id, event.agent, "") # {}]
  /\ deliveries' = deliveries + 1
  /\ UNCHANGED <<clock, saveCalls, lastCall>>
  /\ UNCHANGED <<roundVars, agentVars>>

\* ------------------------------------------------------------- reads
\* an Optional value: Python's None, or a value
Null == <<>>

Some(x) == <<x>>

\* truth value of an Optional mapping: None and the empty mapping are false
Truthy(opt) == opt # Null /\ opt[1] # EmptyDict

\* CosmosService.get_agent_result: the values the call may return; the query
\* has no ORDER BY, so the first item is any matching document; a failure of
\* the store is caught and answered with None
get_agent_result_ignoresThread(store, up, session_id, agent, thread_id) ==
  IF ~up THEN {Null}
  ELSE LET items == Matches(store, session_id, agent, "")
       IN  IF items = {} THEN {Null} ELSE {Some(store[k]) : k \in items}

get_agent_result(store, up, session_id, agent, thread_id) ==
  IF ~up THEN {Null}
  ELSE LET items == Matches(store, session_id, agent, thread_id)
       IN  IF items = {} THEN {Null} ELSE {Some(store[k]) : k \in items}

\* GET /{session_id}: the responses the endpoint may give
get_all_agent_results(store, up, session_id, thread_id) ==
  LET Found == {("evaluator" :> e) @@ ("judge" :> j) @@ ("reflection" :> r) :
                  e \in get_agent_result(store, up, session_id, "evaluator", thread_id),
                  j \in get_agent_result(store, up, session_id, "judge", thread_id),
                  r \in get_agent_result(store, up, session_id, "reflection", thread_id)}
      Results(f) == [agent \in AgentKinds |->
                       IF f[agent] # Null
                       THEN Some(Get(f[agent][1], "results", EmptyDict))
                       ELSE Null]
  IN  {IF \A agent \in AgentKinds : ~Truthy(Results(f)[agent])
       THEN [status_code |-> 404, body |-> <<>>]
       ELSE [status_code |-> 200, body |-> Results(f)] : f \in Found}

\* ------------------------------------------------------ batch deliveries
\* the event of one agent kind of the round (session_id, thread_id)
RoundEvent(agent, session_id, thread_id) ==
  [Event(agent, session_id, Responses, 0) EXCEPT !.thread_id = thread_id]

\* the orders and batchings in which the bus may hand over events of a round
KindOrders ==
  {l \in SeqsOver(AgentKinds, 3) : Len(l) >= 1 /\ Cardinality(Range(l)) = Len(l)}

\* what happens while each event of a batch is processed: its agent raises,
\* or it returns a result and the store then answers the write or does not
RunOf(event, fate) ==
  CHOOSE run \in AgentRuns(event) :
    IF fate = "raise" THEN run.raised
    ELSE ~run.raised /\ \A m \in DOMAIN run.results : run.results[m][2] = "v1"

Fates(body) ==
  {[i \in DOMAIN body |-> [run |-> RunOf(body[i], fate[i]), up |-> fate[i] # "store_down"]] :
     fate \in [DOMAIN body -> {"raise", "store_down", "stored"}]}

\* handle_eventgrid for a list body: process_agent_event on each item in
\* turn; an exception that leaves process_agent_event ends the loop
RECURSIVE handle_eventgrid_stopsAtFailure(_, _, _)
handle_eventgrid_stopsAtFailure(store, body, fates) ==
  IF body = <<>> THEN [store |-> store, log |-> <<>>]
  ELSE LET r == process_agent_event(store, Head(body), Head(fates).run, Head(fates).up)
           rest == IF r.status \in {"agent_failed", "error", "raised"}
                   THEN [store |-> r.store, log |-> <<>>]
                   ELSE handle_eventgrid_stopsAtFailure(r.store, Tail(body), Tail(fates))
       IN  [store |-> rest.store, log |-> <<r.status>> \o rest.log]

RECURSIVE handle_eventgrid(_, _, _)
handle_eventgrid(store, body, fates) ==
  IF body = <<>> THEN [store |-> store, log |-> <<>>]
  ELSE LET r == process_agent_event(store, Head(body), Head(fates).run, Head(fates).up)
           rest == IF r.status = "raised" THEN [store |-> r.store, log |-> <<>>]
                   ELSE handle_eventgrid(r.store, Tail(body), Tail(fates))
       IN  [store |-> rest.store, log |-> <<r.status>> \o rest.log]

\* the answer of POST /eventgrid: the number of events processed, or the
\* HTTPException(500) of its except clause
eventgrid_response(log) ==
  IF \E i \in DOMAIN log : log[i] = "raised" THEN [status_code |-> 500]
  ELSE [status |-> "processed", events_processed |-> Len(log)]

\* POST /eventgrid with a list body: a batch of events of one round, in any
\* order
DeliverBatch ==
  /\ \E session_id \in SessionIds, thread_id \in ThreadIds, order \in KindOrders :
       LET body == [i \in DOMAIN order |-> RoundEvent(order[i], session_id, thread_id)]
       IN  /\ deliveries + Len(body) <= MaxDeliveries
           /\ deliveries' = deliveries + Len(body)
           /\ \E fates \in Fates(body) :
                LET r == handle_eventgrid(agentResults, body, fates)
                IN  /\ agentResults' = r.store
                    /\ lastCall' =
                         [op |-> "batch", session_id |-> session_id,
                          thread_id |-> thread_id, size |-> Len(body),
                          log |-> [i \in DOMAIN r.log |->
                                     [agent |-> order[i], ran |-> ~fates[i].run.raised,
                                      up |-> fates[i].up, status |-> r.log[i]]],
                          response |-> eventgrid_response(r.log)]
  /\ UNCHANGED <<clock, saveCalls, lastDelivery>>
  /\ UNCHANGED <<roundVars, agentVars>>

\* event data as any sender may post it: no mapping at all, a mapping that
\* names no known agent kind, one that lacks a required field, and the
\* well-formed events of two agent kinds
DeliveredData ==
  LET event == Event("judge", SessionId, Responses, 0)
  IN  {NonMapping,
       Event("summary", SessionId, Responses, 0),
       [event EXCEPT !.agent = ""],
       [event EXCEPT !.session_id = <<>>],
       [event EXCEPT !.thread_id = ""],
       [event EXCEPT !.prompt = <<>>],
       [event EXCEPT !.responses = <<>>],
       event,
       Event("evaluator", SessionId, Responses, 0)}

\* the agent and the store have a part only for data that is a mapping
DataFates(body) ==
  {[i \in DOMAIN body |->
      IF IsMapping(body[i])
      THEN [run |-> RunOf(body[i], fate[i]), up |-> fate[i] # "store_down"]
      ELSE [run |-> [raised |-> FALSE, results |-> <<>>], up |-> TRUE]] :
     fate \in {f \in [DOMAIN body -> {"raise", "store_down", "stored"}] :
                 \A i \in DOMAIN body : ~IsMapping(body[i]) => f[i] = "stored"}}

\* POST /eventgrid with a list body whose items carry any data
DeliverData ==
  /\ \E body \in SeqsOver(DeliveredData, MaxBatch) :
       /\ body # <<>>
       /\ deliveries + Len(body) <= MaxDeliveries
       /\ deliveries' = deliveries + Len(body)
       /\ \E fates \in DataFates(body) :
            LET r == handle_eventgrid(agentResults, body, fates)
            IN  /\ agentResults' = r.store
                /\ lastCall' = [op |-> "data", body |-> body, log |-> r.log,
                                response |-> eventgrid_response(r.log)]
  /\ UNCHANGED <<clock, saveCalls, lastDelivery>>
  /\ UNCHANGED <<roundVars, agentVars>>

\* whether the latest call was a batch in which the consumer of this kind,
\* session and (when given) thread ran its agent and reached the store
ConsumerFinished(session_id, agent, thread_id) ==
  /\ lastCall.op = "batch"
  /\ lastCall.session_id = session_id
  /\ thread_id # "" => lastCall.thread_id = thread_id
  /\ \E i \in DOMAIN lastCall.log :
       /\ lastCall.log[i].agent = agent
       /\ lastCall.log[i].ran
       /\ lastCall.log[i].up

\* a poller reads one record through CosmosService.get_agent_result, with
\* or without a thread filter
GetAgentResult ==
  /\ \E session_id \in SessionIds, agent \in AgentKinds,
        thread_id \in ThreadIds \cup {""}, up \in BOOLEAN :
       \E result \in get_agent_result(agentResults, up, session_id, agent, thread_id) :
         lastCall' =
           [op |-> "get", session_id |-> session_id, agent |-> agent,
            thread_id |-> thread_id, up |-> up,
            matching |-> Matches(agentResults, session_id, agent, thread_id) # {},
            afterConsumer |-> ConsumerFinished(session_id, agent, thread_id),
            result |-> result]
  /\ UNCHANGED <<agentResults, clock, saveCalls, deliveries, lastDelivery>>
  /\ UNCHANGED <<roundVars, agentVars>>

\* a caller upserts a payload, possibly an empty one, through
\* CosmosService.save_agent_results
UpsertResults ==
  /\ \E session_id \in SessionIds, agent \in AgentKinds, results \in Payloads,
        up \in BOOLEAN :
       LET r == save_agent_results(agentResults, up, session_id, ThreadId, agent, "1",
                                   results)
       IN  /\ agentResults' = r.store
           /\ lastCall' = [op |-> "save", session_id |-> session_id, agent |-> agent,
                           up |-> up, response |-> [status |-> r.status]]
  /\ UNCHANGED <<clock, saveCalls, deliveries, lastDelivery>>
  /\ UNCHANGED <<roundVars, agentVars>>

\* a client asks GET /{session_id} for the results of a session
GetAllAgentResults ==
  /\ \E session_id \in SessionIds, thread_id \in ThreadIds \cup {""}, up \in BOOLEAN :
       \E response \in get_all_agent_results(agentResults, up, session_id, thread_id) :
         lastCall' =
           [op |-> "get_all", session_id |-> session_id, thread_id |-> thread_id,
            up |-> up,
            stored |-> [agent \in AgentKinds |->
                          {agentResults[k].results :
                             k \in Matches(agentResults, session_id, agent, thread_id)}],
            written |-> {k \in DOMAIN agentResults :
                           agentResults[k].session_id = session_id} # {},
            response |-> response]
  /\ UNCHANGED <<agentResults, clock, saveCalls, deliveries, lastDelivery>>
  /\ UNCHANGED <<roundVars, agentVars>>

\* ------------------------------------------------------------- judge parser
\* Texts handed to the parser are sequences of tokens: the quote character,
\* the backslash, braces, colon, comma, a blank, a newline, a byte order
\* mark, three backticks, numerals and words.
Q == "\""

BSL == "\\"

BOM == "BOM"

\* three backticks
Fence == "FENCE"

\* what encode().decode('unicode_escape') makes of a byte order mark
Mojibake == "MOJIBAKE"

Numerals == {"0", "5", "7", "9"}

NumeralValue(tok) ==
  CASE tok = "0" -> 0
    [] tok = "5" -> 5
    [] tok = "7" -> 7
    [] tok = "9" -> 9

Dimensions == {"personalization", "relevance", "fluency", "coherence", "creativity"}

\* values json.loads builds: a number, a string, an object
JInt(n) == [type |-> "int", n |-> n, text |-> <<>>, items |-> <<>>]

JString(text) == [type |-> "str", n |-> 0, text |-> text, items |-> <<>>]

JDict(items) == [type |-> "dict", n |-> 0, text |-> <<>>, items |-> items]

JSONDecodeError == [ok |-> FALSE, exc |-> "JSONDecodeError"]

RECURSIVE SkipSpace(_, _)
SkipSpace(s, i) == IF i <= Len(s) /\ IsSpace(s[i]) THEN SkipSpace(s, i + 1) ELSE i

\* the digits from position i on, as a number
RECURSIVE ScanDigits(_, _, _)
ScanDigits(s, i, acc) ==
  IF i <= Len(s) /\ s[i] \in Numerals
  THEN ScanDigits(s, i + 1, acc * 10 + NumeralValue(s[i]))
  ELSE [val |-> acc, next |-> i]

\* a JSON string whose opening quote is before position i
RECURSIVE ScanString(_, _, _)
ScanString(s, i, acc) ==
  IF i > Len(s) THEN JSONDecodeError
  ELSE IF s[i] = Q THEN [ok |-> TRUE, val |-> acc, next |-> i + 1]
  ELSE IF s[i] = "\n" THEN JSONDecodeError
  ELSE IF s[i] = BSL
  THEN IF i + 1 > Len(s) THEN JSONDecodeError
       ELSE IF s[i + 1] = Q THEN ScanString(s, i + 2, Append(acc, Q))
       ELSE IF s[i + 1] = "n" THEN ScanString(s, i + 2, Append(acc, "\n"))
       ELSE IF s[i + 1] = BSL THEN ScanString(s, i + 2, Append(acc, BSL))
       ELSE JSONDecodeError
  ELSE ScanString(s, i + 1, Append(acc, s[i]))

RECURSIVE ParseValue(_, _)
RECURSIVE ParseMembers(_, _, _)
ParseValue(s, i) ==
  IF i > Len(s) THEN JSONDecodeError
  ELSE IF s[i] = Q
  THEN LET r == ScanString(s, i + 1, <<>>)
       IN  IF r.ok THEN [ok |-> TRUE, val |-> JString(r.val), next |-> r.next]
           ELSE JSONDecodeError
  ELSE IF s[i] \in Numerals
  THEN LET r == ScanDigits(s, i, 0)
       IN  [ok |-> TRUE, val |-> JInt(r.val), next |-> r.next]
  ELSE IF s[i] = "{"
  THEN LET j == SkipSpace(s, i + 1)
       IN  IF j <= Len(s) /\ s[j] = "}"
           THEN [ok |-> TRUE, val |-> JDict(EmptyDict), next |-> j + 1]
           ELSE ParseMembers(s, j, EmptyDict)
  ELSE JSONDecodeError

\* the members of an object from the key at position i on; a key given
\* twice keeps its last value
ParseMembers(s, i, acc) ==
  IF i > Len(s) \/ s[i] # Q THEN JSONDecodeError
  ELSE LET key == ScanString(s, i + 1, <<>>)
       IN  IF ~key.ok THEN JSONDecodeError
           ELSE LET colon == SkipSpace(s, key.next)
                IN  IF colon > Len(s) \/ s[colon] # ":" THEN JSONDecodeError
                    ELSE LET v == ParseValue(s, SkipSpace(s, colon + 1))
                         IN  IF ~v.ok THEN JSONDecodeError
                             ELSE LET items == (key.val :> v.val) @@ acc
                                      e == SkipSpace(s, v.next)
                                  IN  IF e > Len(s) THEN JSONDecodeError
                                      ELSE IF s[e] = "}"
                                      THEN [ok |-> TRUE, val |-> JDict(items), next |-> e + 1]
                                      ELSE IF s[e] = ","
                                      THEN ParseMembers(s, SkipSpace(s, e + 1), items)
                                      ELSE JSONDecodeError

\* json.loads: one value between optional white space, and nothing else
json_loads(s) ==
  LET r == ParseValue(s, SkipSpace(s, 1))
  IN  IF ~r.ok THEN JSONDecodeError
      ELSE IF SkipSpace(s, r.next) <= Len(s) THEN JSONDecodeError
      ELSE [ok |-> TRUE, val |-> r.val]

\* str.encode().decode('unicode_escape'): backslash sequences become the
\* characters they name, a byte order mark becomes three Latin-1 characters,
\* a backslash at the end is an error
unicode_escape(s) ==
  LET \* the number of backslashes right before position i
      Run(i) == CHOOSE n \in 0..(i - 1) :
                  /\ \A k \in 1..n : s[i - k] = BSL
                  /\ (n = i - 1 \/ s[i - n - 1] # BSL)
      \* position i is a backslash that starts an escape sequence
      Opens(i) == s[i] = BSL /\ Run(i) % 2 = 0
      Named(tok) == tok \in {"n", Q, BSL}
      \* the positions that give a character of their own
      kept == {i \in DOMAIN s : ~(Opens(i) /\ i < Len(s) /\ Named(s[i + 1]))}
      Nth(k) == CHOOSE i \in kept : Cardinality({j \in kept : j <= i}) = k
      Made(i) == IF i > 1 /\ Opens(i - 1) /\ Named(s[i])
                 THEN (IF s[i] = "n" THEN "\n" ELSE s[i])
                 ELSE IF s[i] = BOM THEN Mojibake ELSE s[i]
  IN  IF s # <<>> /\ Opens(Len(s)) THEN [ok |-> FALSE, text |-> <<>>]
      ELSE [ok |-> TRUE, text |-> [k \in 1..Cardinality(kept) |-> Made(Nth(k))]]

\* str.find: the first position of tok in s, 0 when there is none
Find(s, tok) ==
  IF \E i \in DOMAIN s : s[i] = tok
  THEN CHOOSE i \in DOMAIN s : s[i] = tok /\ \A j \in 1..(i - 1) : s[j] # tok
  ELSE 0

\* JudgeAgent._clean_json_string
clean_json_string(json_str) ==
  LET first == IF json_str # <<>> /\ (Head(json_str) \in {BOM, Mojibake} \/ IsSpace(Head(json_str)))
               THEN Tail(json_str) ELSE json_str
      stripped == Strip(first)
      decoded == unicode_escape(stripped)
      unescaped == IF decoded.ok THEN decoded.text ELSE stripped
      brace_pos == Find(unescaped, "{")
  IN  IF unescaped # <<>> /\ Head(unescaped) = "{" THEN unescaped
      ELSE IF brace_pos > 0 THEN SubSeq(unescaped, brace_pos, Len(unescaped))
      ELSE unescaped

\* the position of the first opening fence of kind json in s, 0 when there
\* is none
FindFence(s) ==
  LET At(i) == i + 1 <= Len(s) /\ s[i] = Fence /\ s[i + 1] = "json"
  IN  IF \E i \in DOMAIN s : At(i)
      THEN CHOOSE i \in DOMAIN s : At(i) /\ \A j \in 1..(i - 1) : ~At(j)
      ELSE 0

\* step 3 of _extract_scores: the candidate text, or no candidate
extract_candidate(result_str) ==
  IF FindFence(result_str) > 0
  THEN LET after == SubSeq(result_str, FindFence(result_str) + 2, Len(result_str))
           close == Find(after, Fence)
       IN  [found |-> TRUE, how |-> "fenced",
            json_content |-> IF close > 0 THEN SubSeq(after, 1, close - 1) ELSE <<>>]
  ELSE LET open == Find(result_str, "{")
           closes == {i \in DOMAIN result_str : result_str[i] = "}" /\ i > open}
       IN  IF open > 0 /\ closes # {}
           THEN [found |-> TRUE, how |-> "braces",
                 json_content |->
                   SubSeq(result_str, open, CHOOSE i \in closes : \A j \in closes : j <= i)]
           ELSE [found |-> FALSE, how |-> "none", json_content |-> <<>>]

\* a match of "([^"]+)":\s* that starts at position i: the name between the
\* quotes and the position after the white space
MatchKey(s, i) ==
  IF i > Len(s) \/ s[i] # Q THEN [ok |-> FALSE]
  ELSE LET later == {j \in (i + 1)..Len(s) : s[j] = Q}
       IN  IF later = {} THEN [ok |-> FALSE]
           ELSE LET j == CHOOSE k \in later : \A l \in later : k <= l
                IN  IF j = i + 1 \/ j + 1 > Len(s) \/ s[j + 1] # ":" THEN [ok |-> FALSE]
                    ELSE [ok |-> TRUE, name |-> SubSeq(s, i + 1, j - 1),
                          next |-> SkipSpace(s, j + 2)]

\* the first quote at position i or later, 0 when there is none
NextQuote(s, i) ==
  LET later == {j \in i..Len(s) : s[j] = Q}
  IN  IF later = {} THEN 0 ELSE CHOOSE j \in later : \A k \in later : j <= k

\* re.finditer(r'"([^"]+)":\s*{'): the names found from position i on
RECURSIVE model_patterns(_, _)
model_patterns(s, i) ==
  LET q == NextQuote(s, i)
      m == MatchKey(s, q)
  IN  IF q = 0 THEN <<>>
      ELSE IF m.ok /\ m.next <= Len(s) /\ s[m.next] = "{"
      THEN <<m.name>> \o model_patterns(s, m.next + 1)
      ELSE model_patterns(s, q + 1)

\* re.finditer(r'"([^"]+)":\s*(\d+)') kept for the five dimensions: the
\* scores found from position i on, a later one replacing an earlier one
RECURSIVE score_matches(_, _, _)
score_matches(s, i, scores) ==
  LET q == NextQuote(s, i)
      m == MatchKey(s, q)
      d == ScanDigits(s, m.next, 0)
  IN  IF q = 0 THEN scores
      ELSE IF m.ok /\ m.next <= Len(s) /\ s[m.next] \in Numerals
      THEN score_matches(s, d.next,
                         IF Len(m.name) = 1 /\ m.name[1] \in Dimensions
                         THEN (m.name :> JInt(d.val)) @@ scores
                         ELSE scores)
      ELSE score_matches(s, q + 1, scores)

\* strategy 3: every name followed by an opening brace gets the scores found
\* anywhere in the candidate
manual_json(json_content) ==
  LET names == model_patterns(json_content, 1)
      scores == score_matches(json_content, 1, EmptyDict)
  IN  IF scores = EmptyDict THEN EmptyDict
      ELSE [model_id \in Range(names) |-> JDict(scores)]

\* int(x) for a parsed value
int(x) ==
  IF x.type = "int" THEN [ok |-> TRUE, val |-> x.n]
  ELSE IF x.type = "str"
  THEN LET t == Strip(x.text)
       IN  IF Len(t) >= 1 /\ \A i \in DOMAIN t : t[i] \in Numerals
           THEN [ok |-> TRUE, val |-> ScanDigits(t, 1, 0).val]
           ELSE [ok |-> FALSE, exc |-> "ValueError"]
  ELSE [ok |-> FALSE, exc |-> "TypeError"]

\* step 5 of _extract_scores: entries that are objects, each with the five
\* dimensions read with default 0 and cast by int, and its reasons
structured_scores(parsed_json) ==
  IF parsed_json.type # "dict" THEN [raised |-> TRUE, exc |-> "AttributeError"]
  ELSE LET entries == {model_id \in DOMAIN parsed_json.items :
                         parsed_json.items[model_id].type = "dict"}
           Dim(model_id, d) == int(Get(parsed_json.items[model_id].items, <<d>>, JInt(0)))
       IN  IF \E model_id \in entries, d \in Dimensions : ~Dim(model_id, d).ok
           THEN [raised |-> TRUE, exc |-> "ValueError"]
           ELSE [raised |-> FALSE,
                 value |->
                   [model_id \in entries |->
                      [personalization |-> Dim(model_id, "personalization").val,
                       relevance |-> Dim(model_id, "relevance").val,
                       fluency |-> Dim(model_id, "fluency").val,
                       coherence |-> Dim(model_id, "coherence").val,
                       creativity |-> Dim(model_id, "creativity").val,
                       reasons |-> Get(parsed_json.items[model_id].items, <<"reasons">>,
                                       JDict(EmptyDict))]]]

\* what the backend handed to the judge: a string, or a mapping with or
\* without a "content" entry that is or is not a string; text is the content
\* or, for the other shapes, str(result_obj)
ResultObj(shape, text) == [shape |-> shape, text |-> text]

\* the try block of _extract_scores: the value it returns or the exception
\* that leaves it, and the parsing steps it went through
extract_scores_try(result_obj) ==
  IF result_obj.shape = "dict_content_none"
  THEN [raised |-> TRUE, exc |-> "TypeError", stages |-> <<>>]
  ELSE LET candidate == extract_candidate(result_obj.text)
           json_content == candidate.json_content
           strategy1 == json_loads(Strip(json_content))
           strategy2 == json_loads(clean_json_string(json_content))
           strategy3 == manual_json(json_content)
           Finish(parsed_json, stages) ==
             LET r == structured_scores(parsed_json)
             IN  IF r.raised THEN [raised |-> TRUE, exc |-> r.exc, stages |-> stages]
                 ELSE [raised |-> FALSE, value |-> r.value, stages |-> stages]
       IN  IF ~candidate.found
           THEN [raised |-> FALSE, value |-> EmptyDict, stages |-> <<"none">>]
           ELSE IF strategy1.ok
           THEN Finish(strategy1.val, <<candidate.how, "strip">>)
           ELSE IF strategy2.ok
           THEN Finish(strategy2.val, <<candidate.how, "strip", "clean">>)
           ELSE IF strategy3 # EmptyDict
           THEN Finish(JDict(strategy3), <<candidate.how, "strip", "clean", "manual">>)
           ELSE [raised |-> FALSE, value |-> EmptyDict,
                 stages |-> <<candidate.how, "strip", "clean", "manual">>]

\* JudgeAgent._extract_scores: every exception of the try block is caught and
\* answered with the empty mapping
extract_scores_noCatchAll(result_obj) == extract_scores_try(result_obj)

extract_scores(result_obj) ==
  LET r == extract_scores_try(result_obj)
  IN  IF r.raised THEN [raised |-> FALSE, value |-> EmptyDict, stages |-> r.stages]
      ELSE r

JudgeAgent_run_everyParsedModel(model_outputs, backend) ==
  IF backend.raised
  THEN [raised |-> FALSE, value |-> model_outputs,
        parsed |-> [raised |-> FALSE, called |-> FALSE]]
  ELSE With(extract_scores(backend.result_obj), LAMBDA parsed_scores :
         [raised |-> FALSE,
          value |->
            [model_id \in DOMAIN model_outputs
                           \cup {key[1] : key \in DOMAIN parsed_scores.value} |->
               IF <<model_id>> \in DOMAIN parsed_scores.value
               THEN [metrics |-> ("judgeScores" :> parsed_scores.value[<<model_id>>])]
               ELSE model_outputs[model_id]],
          parsed |-> [called |-> TRUE] @@ parsed_scores])

\* JudgeAgent.run: the backend call raises or answers; the scores of the
\* models of the round are attached; every exception is caught. parsed is
\* what _extract_scores did, when it was called
JudgeAgent_run(model_outputs, backend) ==
  IF backend.raised
  THEN [raised |-> FALSE, value |-> model_outputs,
        parsed |-> [raised |-> FALSE, called |-> FALSE]]
  ELSE With(extract_scores(backend.result_obj), LAMBDA parsed_scores :
         [raised |-> FALSE,
          value |->
            IF parsed_scores.raised THEN model_outputs
            ELSE [model_id \in DOMAIN model_outputs |->
                    IF <<model_id>> \in DOMAIN parsed_scores.value
                    THEN [model_outputs[model_id] EXCEPT
                            !.metrics = ("judgeScores" :> parsed_scores.value[<<model_id>>]) @@ @]
                    ELSE model_outputs[model_id]],
          parsed |-> [called |-> TRUE] @@ parsed_scores])

\* ---------------------------------------------------- judge outputs tried
Str(word) == <<Q, word, Q>>

\* {"<d>": <n>}
Scores1(d, n) == <<"{">> \o Str(d) \o <<":", " ", n, "}">>

\* {"<d1>": <n1>, "<d2>": <n2>}
Scores2(d1, n1, d2, n2) ==
  <<"{">> \o Str(d1) \o <<":", " ", n1, ",", " ">> \o Str(d2) \o <<":", " ", n2, "}">>

\* {"reasons": "<text>", "fluency": 7}
ScoresReasonText(text) ==
  <<"{">> \o Str("reasons") \o <<":", " ", Q>> \o text \o <<Q, ",", " ">>
    \o Str("fluency") \o <<":", " ", "7", "}">>

\* {"fluency": 7, "reasons": {"fluency": "ok"}}
ScoresReasons ==
  <<"{">> \o Str("fluency") \o <<":", " ", "7", ",", " ">> \o Str("reasons")
    \o <<":", " ", "{">> \o Str("fluency") \o <<":", " ">> \o Str("ok") \o <<"}", "}">>

ModelEntries ==
  {Scores1("fluency", "7"), Scores1("relevance", "9"), Scores1("creativity", "0"),
   Scores2("fluency", "7", "relevance", "9"), Scores2("fluency", "5", "fluency", "9"),
   ScoresReasonText(<<"ok">>), ScoresReasonText(<<Fence>>),
   ScoresReasonText(<<Fence, "json">>), ScoresReasons,
   ScoresReasonText(<<"a", BSL, "n", "b">>), ScoresReasonText(<<BSL, Q, "hi", BSL, Q>>),
   <<"{">> \o Str("fluency") \o <<":", " ">> \o Str("high") \o <<"}">>,
   <<"{">> \o Str("fluency") \o <<":", " ">> \o Str("7") \o <<"}">>,
   <<"{", "}">>, <<"7">>}

\* {"<model>": <entry>} and {"gpt4": <entry>,\n "phi4": <entry>}
OneModel(model, model_entry) == <<"{">> \o Str(model) \o <<":", " ">> \o model_entry \o <<"}">>

TwoModels(entry1, entry2) ==
  <<"{">> \o Str("gpt4") \o <<":", " ">> \o entry1 \o <<",", "\n">>
    \o Str("phi4") \o <<":", " ">> \o entry2 \o <<"}">>

\* well-formed JSON texts
WellFormedJson ==
  {OneModel("gpt4", e) : e \in ModelEntries}
    \cup {TwoModels(e1, e2) :
            e1 \in {Scores1("fluency", "7"), <<"7">>, ScoresReasons,
                    ScoresReasonText(<<"a", BSL, "n", "b">>)},
            e2 \in {Scores1("fluency", "5"), Scores1("relevance", "9")}}
    \cup {<<"{", "}">>, <<"7">>, Str("ok")}

\* the text inside a fenced block of kind json
Fenced(text) == <<Fence, "json", "\n">> \o text \o <<"\n", Fence>>

\* the text as json.dumps writes it inside a string
RECURSIVE Escaped(_)
Escaped(text) ==
  IF text = <<>> THEN <<>>
  ELSE (CASE Head(text) = Q -> <<BSL, Q>>
          [] Head(text) = "\n" -> <<BSL, "n">>
          [] Head(text) = BSL -> <<BSL, BSL>>
          [] OTHER -> <<Head(text)>>) \o Escaped(Tail(text))

\* json.dumps of the gateway's result mapping with the text as its content
Dumped(text) ==
  <<"{">> \o Str("content") \o <<":", " ", Q>> \o Escaped(text) \o <<Q, ",", " ">>
    \o Str("model") \o <<":", " ">> \o Str("gpt4") \o <<"}">>

\* an answer cut off after the first score: {"gpt4": {"fluency": 7
Truncated == <<"{">> \o Str("gpt4") \o <<":", " ", "{">> \o Str("fluency") \o <<":", " ", "7">>

\* the text after an opening fence and a byte order mark, the fence closed
WithStrayByte(text) == <<Fence, "json", BOM>> \o text \o <<Fence>>

\* texts that are not JSON
Malformed ==
  {<<"Here">>, <<>>, Truncated, <<Fence, "json", "\n">> \o Truncated, <<Fence, "json", "\n", "{">>, <<"{", "Here", "}">>,
   <<"{">> \o Str("gpt4") \o <<":", " ", "{">> \o Str("fluency") \o <<":", " ", "7", ",", "}", "}">>,
   <<"{">> \o Str("gpt4") \o <<":", " ", "{">> \o Str("fluency") \o <<":", " ", "7", "}">>,
   <<"{", "'", "error", "'", ":", " ", "'", "Here", "'", "}">>}

JudgeTexts ==
  WellFormedJson \cup Malformed
    \cup {Fenced(j) : j \in WellFormedJson}
    \cup {<<" ">> \o j \o <<"\n">> : j \in WellFormedJson}
    \cup {<<"Here", ":", " ">> \o j : j \in WellFormedJson}
    \cup {<<"Here", "\n">> \o Fenced(j) \o <<"\n", "Here">> : j \in WellFormedJson}
    \cup {Dumped(Fenced(j)) : j \in WellFormedJson}
    \cup {WithStrayByte(j) : j \in WellFormedJson}

\* what the backend call of JudgeAgent.run may do
Backends ==
  {[raised |-> TRUE]}
    \cup {[raised |-> FALSE, result_obj |-> ResultObj("str", t)] : t \in JudgeTexts}
    \cup {[raised |-> FALSE, result_obj |-> ResultObj("dict_content_str", Fenced(j))] :
            j \in WellFormedJson}
    \cup {[raised |-> FALSE, result_obj |-> ResultObj("dict_content_none", <<>>)],
          [raised |-> FALSE,
           result_obj |-> ResultObj("dict_no_content",
                                    <<"{", "'", "error", "'", ":", " ", "'", "Here", "'", "}">>)]}

\* ------------------------------------------------------------ embeddings
\* embedding vectors, of dimension 2 here; their norms are whole numbers
Vectors == {<<0, 0>>, <<1, 0>>, <<0, 1>>, <<3, 4>>, <<4, 3>>}

ZeroVector == <<0, 0>>

IsZero(v) == \A i \in DOMAIN v : v[i] = 0

RECURSIVE Dot(_, _)
Dot(a, b) == IF a = <<>> THEN 0 ELSE Head(a) * Head(b) + Dot(Tail(a), Tail(b))

\* np.linalg.norm
Norm(v) == CHOOSE n \in 0..5 : n * n = Dot(v, v)

\* a float: not a number, or a value in hundredths
NaN == [nan |-> TRUE, val |-> 0]

Float(hundredths) == [nan |-> FALSE, val |-> hundredths]

\* analyze_metrics_function.cosine_similarity
cosine_similarity(vec_a, vec_b) ==
  IF IsZero(vec_a) \/ IsZero(vec_b) THEN Float(0)
  ELSE IF Len(vec_a) # Len(vec_b) THEN Float(0)
  ELSE Float((Dot(vec_a, vec_b) * 100) \div (Norm(vec_a) * Norm(vec_b)))

\* EmbeddingService.calculate_similarity: an exception of numpy (vectors of
\* different length) gives 0.0; a division of zero by zero gives nan
calculate_similarity(vec1, vec2) ==
  IF Len(vec1) # Len(vec2) THEN Float(0)
  ELSE IF Norm(vec1) * Norm(vec2) = 0 THEN NaN
  ELSE Float((Dot(vec1, vec2) * 100) \div (Norm(vec1) * Norm(vec2)))

\* analyze_metrics_function.get_embedding: zeros for an empty text and for a
\* failed call
get_embedding(text, fate) ==
  IF Strip(text) = <<>> \/ ~fate.ok THEN ZeroVector ELSE fate.vector

\* ------------------------------------------------------------- evaluator
\* completions the gateway may give in a scored round
RoundOutcomes ==
  {Outcome("success", c, e) : c \in {<<"a">>, <<" ", "a">>}, e \in 0..MaxElapsed}
    \cup {Outcome("success", <<>>, 0), Outcome("success", <<" ">>, 0),
          Outcome("raise", <<>>, 0)}

\* PlannerAgent.run for the models gpt4 and phi4
PlannerRound(user_prompt, o_gpt4, o_phi4) ==
  PlannerIteration(
    PlannerIteration(EmptyDict, "gpt4", user_prompt, o_gpt4, NoDoc, TRUE).completions,
    "phi4", user_prompt, o_phi4, NoDoc, TRUE).completions

RoundMappings == {PlannerRound(<<"a">>, o1, o2) : o1, o2 \in RoundOutcomes}

\* the share of the candidate's words found in the reference, in hundredths;
\* stands for the BLEU and ROUGE scores
Overlap(reference, candidate) ==
  (Cardinality({i \in DOMAIN candidate : candidate[i] \in Range(reference)}) * 100)
    \div Len(candidate)

\* the entry analyze_metrics builds for one model
comparison_result(model_id, reference, candidate, output, reference_embedding, fate) ==
  LET cosine_sim == cosine_similarity(reference_embedding, get_embedding(candidate, fate))
      overlap == Overlap(reference, candidate)
      total_tokens == Get(output.metrics, "totalTokens", 0)
  IN  [model_id |-> model_id, BLEU |-> overlap, ROUGE_1 |-> overlap, ROUGE_L |-> overlap,
       SemanticCosineSimilarity |-> cosine_sim.val,
       CombinedScore |-> (3 * overlap + cosine_sim.val) \div 4,
       metrics |->
         [response_time |-> output.response_time,
          tokens |-> [prompt_tokens |-> Get(output.metrics, "promptTokens", 0),
                      completion_tokens |-> Get(output.metrics, "completionTokens", 0),
                      total_tokens |-> total_tokens],
          tokens_per_second |-> IF output.response_time > 0
                                THEN total_tokens \div output.response_time ELSE 0]]

\* ComparisonPlugin.analyze_metrics: the comparisons, as a mapping from the
\* model to its entry; a model with an empty candidate text is skipped
analyze_metrics_scoresEmpty(prompt_text, model_outputs, fates) ==
  [model_id \in DOMAIN model_outputs |->
     comparison_result(model_id, Strip(prompt_text),
                       IF Strip(model_outputs[model_id].content) = <<>> THEN <<" ">>
                       ELSE Strip(model_outputs[model_id].content),
                       model_outputs[model_id],
                       get_embedding(Strip(prompt_text), fates.reference),
                       fates.candidate[model_id])]

analyze_metrics(prompt_text, model_outputs, fates) ==
  LET reference == Strip(prompt_text)
      reference_embedding == get_embedding(reference, fates.reference)
      scored == {model_id \in DOMAIN model_outputs :
                   Strip(model_outputs[model_id].content) # <<>>}
  IN  IF reference = <<>> THEN EmptyDict
      ELSE [model_id \in scored |->
              comparison_result(model_id, reference, Strip(model_outputs[model_id].content),
                                model_outputs[model_id], reference_embedding,
                                fates.candidate[model_id])]

\* what the backends do during one EvaluatorAgent.run: the plugin call
\* answers or fails, and each embedding call has its fate
EvaluatorFates ==
  {[plugin |-> p, reference |-> r, candidate |-> ("gpt4" :> c1) @@ ("phi4" :> c2)] :
     p \in {"ok", "error"}, r \in {[ok |-> TRUE, vector |-> <<3, 4>>], [ok |-> FALSE, vector |-> <<>>]},
     c1 \in {[ok |-> TRUE, vector |-> <<4, 3>>], [ok |-> FALSE, vector |-> <<>>]},
     c2 \in {[ok |-> TRUE, vector |-> <<3, 4>>]}}

\* EvaluatorAgent.run: the comparisons are attached to the models of the
\* round; every exception is caught and the mapping is returned. The metrics
\* payload reads output.response_time of every output before the plugin is
\* called, and an output without that attribute raises AttributeError
EvaluatorAgent_run(prompt_text, model_outputs, fates) ==
  LET readable == \A model_id \in DOMAIN model_outputs :
                    {"content", "response_time", "metrics"}
                      \subseteq DOMAIN model_outputs[model_id]
      comparisons == IF readable /\ fates.plugin = "ok"
                     THEN analyze_metrics(prompt_text, model_outputs, fates)
                     ELSE EmptyDict
  IN  [model_id \in DOMAIN model_outputs |->
         IF model_id \in DOMAIN comparisons
         THEN [model_outputs[model_id] EXCEPT
                 !.metrics = ("comparison" :> comparisons[model_id]) @@ @]
         ELSE model_outputs[model_id]]

EvaluatorIdle == evaluator = [pc |-> "idle"]

\* EvaluatorAgent.run is called for a round
EvaluatorCalled ==
  \E model_outputs \in RoundMappings, fates \in EvaluatorFates, p \in {<<"a">>, <<" ">>} :
    evaluator = [pc |-> "called", prompt |-> p, model_outputs |-> model_outputs,
                 fates |-> fates]

\* EvaluatorAgent.run runs to its return
EvaluatorRun ==
  /\ evaluator.pc = "called"
  /\ evaluator' =
       [pc |-> "returned", prompt |-> evaluator.prompt,
        model_outputs |-> evaluator.model_outputs, fates |-> evaluator.fates,
        returned |-> EvaluatorAgent_run(evaluator.prompt, evaluator.model_outputs,
                                        evaluator.fates)]
  /\ UNCHANGED <<roundVars, storeVars, judge, reflection, saves>>

\* EvaluationOrchestrator.execute: the responses of the events it publishes
aggregated_responses(planner_output) ==
  [model_id \in DOMAIN planner_output |->
     [content |-> planner_output[model_id].content,
      metrics |-> planner_output[model_id].metrics]]

\* the orchestrator has published the evaluator event of a round
EvaluatorPublished ==
  \E planner_output \in RoundMappings, fates \in EvaluatorFates, up \in BOOLEAN :
    evaluator = [pc |-> "published",
                 event |-> [RoundEvent("evaluator", SessionId, ThreadId) EXCEPT
                              !.responses = aggregated_responses(planner_output)],
                 fates |-> fates, up |-> up]

\* process_agent_event for the evaluator event runs to its end: the entries
\* of responses become objects with the entries' keys as attributes, the
\* evaluator runs on them and its mapping is stored
EvaluatorEvent ==
  /\ evaluator.pc = "published"
  /\ LET event == evaluator.event
         r == process_agent_event(agentResults, event,
                                  [raised |-> FALSE,
                                   results |-> EvaluatorAgent_run(event.prompt,
                                                                  event.responses,
                                                                  evaluator.fates)],
                                  evaluator.up)
     IN  /\ agentResults' = r.store
         /\ evaluator' = [pc |-> "stored", event |-> event, fates |-> evaluator.fates,
                          up |-> evaluator.up, status |-> r.status]
  /\ UNCHANGED <<roundVars, clock, saveCalls, deliveries, lastDelivery, lastCall,
                 judge, reflection, saves>>

\* JudgeAgent._build_user_prompt: the prompt and one section for each model
\* of the round
build_user_prompt(prompt_text, model_outputs) ==
  [prompt |-> prompt_text,
   responses |-> {[model_id |-> model_id, content |-> Strip(model_outputs[model_id].content)] :
                    model_id \in DOMAIN model_outputs}]

\* answers of the judge's backend in a scored round: it fails, or it rates
\* one model or both
RoundBackends ==
  {[raised |-> TRUE],
   [raised |-> FALSE,
    result_obj |-> ResultObj("str", Fenced(OneModel("gpt4", Scores1("fluency", "7"))))],
   [raised |-> FALSE,
    result_obj |-> ResultObj("str", Fenced(TwoModels(Scores1("fluency", "7"),
                                                      Scores1("fluency", "5"))))]}

\* rounds handed to the judge: both models answered, or the call of one raised
JudgedRounds ==
  {PlannerRound(<<"a">>, o, Outcome("success", <<"a">>, 0)) :
     o \in {Outcome("success", <<" ", "a">>, 0), Outcome("raise", <<>>, 0)}}

\* JudgeAgent.run is called for a round the planner returned
JudgeCalledForRound ==
  \E model_outputs \in JudgedRounds, backend \in RoundBackends :
    judge = [pc |-> "called", prompt |-> <<"a">>, model_outputs |-> model_outputs,
             backend |-> backend]

\* ------------------------------------------------------------ reflection
\* a field a document does not have
Undefined == "undefined"

\* ReflectionAgent.run: top_k and min_relevance (in hundredths)
TopK == 3

MinRelevance == 70

MaxRecords == 4

\* documents of the vector container; save_embedding writes the thread under
\* metadata, the query of search_memory reads it at the top level
MemoryRecord(model_id, thread_id, text, embedding) ==
  [model_id |-> model_id, thread_id |-> thread_id, text |-> text, embedding |-> embedding]

MemoryRecords ==
  {MemoryRecord("gpt4", ThreadId, <<" ", "m1">>, <<3, 4>>),
   MemoryRecord("gpt4", ThreadId, <<"m2">>, <<4, 3>>),
   MemoryRecord("gpt4", ThreadId, <<"m3">>, <<1, 0>>),
   MemoryRecord("gpt4", ThreadId, <<"m4">>, <<0, 0>>),
   MemoryRecord("gpt4", ThreadId, <<"m5">>, <<>>),
   MemoryRecord("custom", ThreadId, <<"m6">>, <<3, 4>>),
   MemoryRecord("gpt4", Undefined, <<"m7">>, <<3, 4>>)}

\* the container's documents in the order a query yields them; a document
\* is in the container once
VectorContainers ==
  {container \in SeqsOver(MemoryRecords, MaxRecords) :
     \A i, j \in DOMAIN container : i # j => container[i] # container[j]}

\* the comparison x < y of two floats; false when either is not a number
Lt(x, y) == ~x.nan /\ ~y.nan /\ x.val < y.val

Reverse(l) == SubSeq([i \in DOMAIN l |-> l[Len(l) + 1 - i]], 1, Len(l))

\* list.sort on short lists: the initial run is found (a strictly descending
\* one is reversed) and the other items are inserted by binary search
RECURSIVE count_run(_, _, _)
count_run(l, i, descending) ==
  IF i > Len(l) THEN i - 1
  ELSE IF Lt(l[i].similarity, l[i - 1].similarity) = descending
  THEN count_run(l, i + 1, descending)
  ELSE i - 1

RECURSIVE InsertPos(_, _, _, _)
InsertPos(sorted, pivot, lo, hi) ==
  IF lo >= hi THEN lo
  ELSE LET p == lo + ((hi - lo) \div 2)
       IN  IF Lt(pivot.similarity, sorted[p].similarity)
           THEN InsertPos(sorted, pivot, lo, p)
           ELSE InsertPos(sorted, pivot, p + 1, hi)

RECURSIVE binarysort(_, _)
binarysort(sorted, rest) ==
  IF rest = <<>> THEN sorted
  ELSE LET pos == InsertPos(sorted, Head(rest), 1, Len(sorted) + 1)
       IN  binarysort(SubSeq(sorted, 1, pos - 1) \o <<Head(rest)>>
                        \o SubSeq(sorted, pos, Len(sorted)),
                      Tail(rest))

\* list.sort(key=similarity, reverse=True): reversed, sorted ascending and
\* stable, reversed again
sort_by_similarity(items) ==
  With(Reverse(items), LAMBDA l :
    LET descending == Len(l) >= 2 /\ Lt(l[2].similarity, l[1].similarity)
        n == IF Len(l) < 2 THEN Len(l) ELSE count_run(l, 3, descending)
        run == IF descending THEN Reverse(SubSeq(l, 1, n)) ELSE SubSeq(l, 1, n)
    IN  Reverse(binarysort(run, SubSeq(l, n + 1, Len(l)))))

\* EmbeddingService.generate_embeddings: the vector, or [] when the call fails
generate_embeddings(fate) == IF fate.ok THEN fate.vector ELSE <<>>

\* MemoryPlugin.search_memory: the first limit documents of the thread that
\* have an embedding, scored and sorted
search_memory(container, model_id, thread_id, query_embedding, limit) ==
  LET results == SelectSeq(container, LAMBDA item : item.thread_id = thread_id)
      embedded == SelectSeq(results, LAMBDA item : item.embedding # <<>>)
      taken == SubSeq(embedded, 1, IF Len(embedded) < limit THEN Len(embedded) ELSE limit)
      scored(item) ==
        [model_id |-> item.model_id, thread_id |-> item.thread_id, text |-> item.text,
         vector |-> item.embedding,
         similarity |-> calculate_similarity(query_embedding, item.embedding)]
  IN  With(taken, LAMBDA items :
        sort_by_similarity(SubSeq([i \in DOMAIN items |-> scored(items[i])],
                                  1, Len(items))))

\* what the backends do during one reflection query: the plugin call answers
\* or fails, the embedding of the query succeeds or fails
ReflectionFates ==
  {[plugin |-> p, query |-> q] :
     p \in {"ok", "error"},
     q \in {[ok |-> TRUE, vector |-> <<3, 4>>], [ok |-> FALSE, vector |-> <<>>]}}

\* ReflectionAgent.run: the memory items of the query, those of them that
\* reach min_relevance, and the context block built from these, one line
\* [Memory][n] text for each
ReflectionAgent_run(prompt_text, model_id, thread_id, container, fates) ==
  LET searched ==
        IF fates.plugin = "ok"
        THEN search_memory(container, model_id, thread_id,
                           generate_embeddings(fates.query), TopK)
        ELSE <<>>
      relevant(item) == ~item.similarity.nan /\ item.similarity.val >= MinRelevance
  IN  With(searched, LAMBDA memory_items :
        With(SelectSeq(memory_items, relevant), LAMBDA relevant_items :
          [model_id |-> model_id, query |-> prompt_text, query_ok |-> fates.query.ok,
           memory_items |-> memory_items, relevant_items |-> relevant_items,
           context |-> [n \in DOMAIN relevant_items |->
                          <<"[Memory]", n, Strip(relevant_items[n].text)>>]]))

\* ReflectionAgent.save_reflection_result: the document it creates
reflection_doc(session_id, thread_id, call, now) ==
  [id |-> <<"reflection", session_id, call.model_id, now>>, session_id |-> session_id,
   mcp_thread_id |-> thread_id, model_id |-> call.model_id, prompt |-> call.query,
   reflection_result |-> call.context, relevant_items |-> call.relevant_items,
   timestamp |-> now, type |-> "reflection"]

\* the loop of process_agent_event for a reflection event: one query for
\* each model of the event, with the model's completion text as the query
reflection_calls_firstModelOnly(event, container, fates) ==
  LET first == CHOOSE model_id \in DOMAIN event.responses : TRUE
  IN  [model_id \in {first} |->
         ReflectionAgent_run(event.responses[model_id].content, model_id, event.thread_id,
                             container, fates)]

reflection_calls(event, container, fates) ==
  [model_id \in DOMAIN event.responses |->
     ReflectionAgent_run(event.responses[model_id].content, model_id, event.thread_id,
                         container, fates)]

\* the documents the queries of a reflection event create, one after another
RECURSIVE save_reflection_results(_, _, _, _, _)
save_reflection_results(store, event, calls, now, up) ==
  IF DOMAIN calls = {} THEN store
  ELSE LET model_id == CHOOSE m \in DOMAIN calls : TRUE
           saved == create_item(store,
                                reflection_doc(event.session_id, event.thread_id,
                                               calls[model_id], now), up)
       IN  save_reflection_results(saved.store, event,
                                   [m \in DOMAIN calls \ {model_id} |-> calls[m]], now, up)

\* reflection events of a round: both models, or one
ReflectionEvents ==
  {RoundEvent("reflection", SessionId, ThreadId),
   [RoundEvent("reflection", SessionId, ThreadId) EXCEPT
      !.responses = ("gpt4" :> [content |-> <<"a">>, metrics |-> EmptyDict])]}

ReflectionIdle == reflection = [pc |-> "idle"]

\* a reflection event is delivered
ReflectionCalled ==
  \E event \in ReflectionEvents, container \in VectorContainers,
     fates \in ReflectionFates, up \in BOOLEAN :
    reflection = [pc |-> "called", event |-> event, container |-> container,
                  fates |-> fates, up |-> up]

\* process_agent_event for the reflection event runs to its end
ReflectionEvent ==
  /\ reflection.pc = "called"
  /\ LET event == reflection.event
         calls == reflection_calls(event, reflection.container, reflection.fates)
         audited == save_reflection_results(agentResults, event, calls, clock, reflection.up)
         r == process_agent_event(audited, event,
                                  [raised |-> FALSE,
                                   results |-> [m \in DOMAIN calls |-> calls[m].context]],
                                  reflection.up)
     IN  /\ agentResults' = r.store
         /\ reflection' = [pc |-> "returned", event |-> event,
                           container |-> reflection.container, fates |-> reflection.fates,
                           up |-> reflection.up, calls |-> calls, status |-> r.status]
  /\ UNCHANGED <<roundVars, clock, saveCalls, deliveries, lastDelivery, lastCall,
                 judge, evaluator, saves>>

JudgeIdle == judge = [pc |-> "idle"]

\* JudgeAgent.run is called for the round's models
JudgeCalled ==
  \E backend \in Backends :
    judge = [pc |-> "called", prompt |-> <<"a">>, model_outputs |-> Responses,
             backend |-> backend]

\* JudgeAgent.run runs to its return
JudgeRun ==
  /\ judge.pc = "called"
  /\ judge' =
       With(JudgeAgent_run(judge.model_outputs, judge.backend), LAMBDA run :
         [pc |-> "returned", prompt |-> judge.prompt, model_outputs |-> judge.model_outputs,
          backend |-> judge.backend,
          user_prompt |-> build_user_prompt(judge.prompt, judge.model_outputs),
          parsed |-> run.parsed,
          returned |-> [raised |-> run.raised, value |-> run.value]])
  /\ UNCHANGED <<roundVars, storeVars, evaluator, reflection, saves>>

\* ------------------------------------------- writers of the conversation log
\* save_conversation_message reads the thread document, decides, and writes
\* it back in a second request to the store; the two requests of one call
\* are two steps here, so that another server process that writes the same
\* log can run between them. (Inside one event loop the call has no await
\* and runs as a whole.)
Writers == {1, 2}

SaveModels == {"gpt4", "phi4"}

SaveRoles == {"user", "assistant"}

SaveContents == {<<"a">>, <<"b">>}

WriterIdle ==
  [pc |-> "idle", model_id |-> "none", role |-> "none", content |-> <<>>,
   token_count |-> 0, item |-> NoDoc, failed |-> FALSE, status |-> "none"]

SavesIdle ==
  saves = [writers |-> [w \in Writers |-> WriterIdle], calls |-> 0,
           overlapped |-> FALSE]

InCall(writer) == writer.pc \in {"called", "read"}

\* threads_container.read_item: the document, or NoDoc for
\* CosmosResourceNotFoundError
read_item(container, model_id) == container[model_id]

\* threads_container.replace_item(item=full_id, body=item): the body takes
\* the place of the stored document whatever that has become since it was
\* read; no etag is sent
replace_item_ifMatch(stored, item, body) ==
  IF stored = item THEN [ok |-> TRUE, doc |-> body] ELSE [ok |-> FALSE, doc |-> stored]

replace_item(stored, item, body) ==
  IF stored # NoDoc THEN [ok |-> TRUE, doc |-> body] ELSE [ok |-> FALSE, doc |-> stored]

\* threads_container.create_item: refuses an id that exists
create_thread(stored, body) ==
  IF stored = NoDoc THEN [ok |-> TRUE, doc |-> body] ELSE [ok |-> FALSE, doc |-> stored]

Returned(writer, status, failed) ==
  [writer EXCEPT !.pc = "returned", !.status = status, !.failed = failed]

\* a caller calls save_conversation_message(model_id, thread_id, role,
\* content, token_count); a call that starts while the other writer is inside
\* its own call is not sequential
SaveCall(w) ==
  /\ saves.writers[w].pc \in {"idle", "returned"}
  /\ saves.calls < MaxWrites
  /\ \E model_id \in SaveModels, role \in SaveRoles, content \in SaveContents :
       saves' =
         [writers |-> [saves.writers EXCEPT ![w] =
                         [pc |-> "called", model_id |-> model_id, role |-> role,
                          content |-> content, token_count |-> 1, item |-> NoDoc,
                          failed |-> FALSE, status |-> "none"]],
          calls |-> saves.calls + 1,
          overlapped |-> saves.overlapped
                           \/ \E other \in Writers \ {w} : InCall(saves.writers[other])]
  /\ UNCHANGED <<roundVars, storeVars, judge, evaluator, reflection>>

\* read_item and the duplicate guard on what it returned
SaveRead(w) ==
  LET writer == saves.writers[w]
  IN  /\ writer.pc = "called"
      /\ \E up \in BOOLEAN :
           LET item == read_item(threads, writer.model_id)
               after ==
                 IF ~up THEN Returned(writer, "error", TRUE)
                 ELSE IF item # NoDoc /\ is_duplicate(item, writer.role, writer.content)
                 THEN Returned([writer EXCEPT !.item = item], "duplicate_skipped", FALSE)
                 ELSE [writer EXCEPT !.pc = "read", !.item = item]
           IN  saves' = [saves EXCEPT !.writers[w] = after]
      /\ UNCHANGED <<roundVars, storeVars, judge, evaluator, reflection>>

\* replace_item of the document read with the message appended, or
\* create_item of a new document when none was found; a refusal of the store
\* is caught and reported as an error
SaveWrite(w) ==
  LET writer == saves.writers[w]
      stored == threads[writer.model_id]
  IN  /\ writer.pc = "read"
      /\ \E up \in BOOLEAN :
           LET written ==
                 IF writer.item # NoDoc
                 THEN replace_item(stored, writer.item,
                                   append_message(writer.item, writer.role,
                                                  writer.content, writer.token_count))
                 ELSE create_thread(stored, new_thread(writer.role, writer.content,
                                                       writer.token_count))
               status == IF ~up \/ ~written.ok THEN "error"
                         ELSE IF writer.item # NoDoc THEN "updated" ELSE "created"
           IN  /\ threads' = IF up /\ written.ok
                             THEN [threads EXCEPT ![writer.model_id] = written.doc]
                             ELSE threads
               /\ saves' = [saves EXCEPT !.writers[w] = Returned(writer, status, ~up)]
      /\ UNCHANGED <<storeUp, pc, entry, models, prompt, idx, completions, outcome,
                     threadsAtStart, aggregated, useCase, sessionDoc, vectors,
                     publishCalls, storeVars, judge, evaluator, reflection>>

SavesInit ==
  StoreIdle /\ RoundInit /\ JudgeIdle /\ EvaluatorIdle /\ ReflectionIdle /\ SavesIdle

SavesNext == \E w \in Writers : SaveCall(w) \/ SaveRead(w) \/ SaveWrite(w)

SavesSpec == SavesInit /\ [][SavesNext]_vars

Init == StoreIdle /\ RoundInit /\ JudgeIdle /\ EvaluatorIdle /\ ReflectionIdle /\ SavesIdle

Next == StartExecute \/ StartCompare \/ PlannerStep \/ CompareStep \/ PublishStep

Spec == Init /\ [][Next]_vars

\* the event loop runs every step that is ready
FairSpec == Spec /\ WF_vars(Next)

\* the aggregation store under callers of save_agent_results (the upsert
\* has no caller among the consumers, which write with create_item)
UpsertNext == Tick \/ SaveAgentResults

UpsertSpec == Init /\ [][UpsertNext]_vars

\* the aggregation store under the consumers of delivered events
ConsumerNext == DeliverEvent

ConsumerSpec == Init /\ [][ConsumerNext]_vars

\* the aggregation store under batch deliveries and a poller; the bus hands
\* over every event it holds and the poller keeps polling
PollNext == DeliverBatch \/ GetAgentResult

PollSpec == Init /\ [][PollNext]_vars

\* arbitrary data delivered to the consumer endpoint
DataNext == DeliverData

DataSpec == Init /\ [][DataNext]_vars

PollFairSpec == PollSpec /\ WF_vars(PollNext)

\* the aggregation store under callers of the upsert and clients of the
\* results endpoint
ResultsNext == UpsertResults \/ GetAllAgentResults

ResultsSpec == Init /\ [][ResultsNext]_vars

\* JudgeAgent.run on every answer of the backend that is tried, and on the
\* rounds the planner returned
JudgeInit ==
  /\ StoreIdle
  /\ RoundInit
  /\ JudgeCalled \/ JudgeCalledForRound
  /\ EvaluatorIdle
  /\ ReflectionIdle
  /\ SavesIdle

JudgeNext == JudgeRun

JudgeSpec == JudgeInit /\ [][JudgeNext]_vars

\* one scoring agent at work on a round: the judge or the evaluator
ScoringInit ==
  /\ StoreIdle
  /\ RoundInit
  /\ ReflectionIdle
  /\ SavesIdle
  /\ \/ (JudgeCalled \/ JudgeCalledForRound) /\ EvaluatorIdle
     \/ JudgeIdle /\ EvaluatorCalled

ScoringNext == JudgeRun \/ EvaluatorRun

ScoringSpec == ScoringInit /\ [][ScoringNext]_vars

\* one consumer agent at work on a round: the evaluator, or the reflection
\* queries of a reflection event
AgentsInit ==
  /\ StoreIdle
  /\ RoundInit
  /\ SavesIdle
  /\ JudgeIdle
  /\ \/ EvaluatorCalled /\ ReflectionIdle
     \/ EvaluatorPublished /\ ReflectionIdle
     \/ EvaluatorIdle /\ ReflectionCalled

AgentsNext == EvaluatorRun \/ EvaluatorEvent \/ ReflectionEvent

AgentsSpec == AgentsInit /\ [][AgentsNext]_vars

\* ================================================================ claims
Requested == Range(models)

PlannerReturned == pc \in {"aggregate", "publish", "done", "failed"}

Failed(m) ==
  m \in DOMAIN outcome /\ outcome[m].kind \in {"client_error", "service_error", "raise"}

Succeeded(m) == m \in DOMAIN outcome /\ outcome[m].kind = "success"

Hung(m) == m \in DOMAIN outcome /\ outcome[m].kind = "hang"

\* C1: once PlannerAgent.run has returned for a list of N distinct model
\* identifiers, its mapping has exactly N entries, one keyed by each requested
\* identifier, whatever each gateway call did (answer, error payload, raise);
\* while it runs, the mapping holds exactly the models already called.
C1_OneEntryPerRequestedModel ==
  /\ PlannerReturned =>
       /\ DOMAIN completions = Requested
       /\ Cardinality(DOMAIN completions) = Len(models)
       /\ \A m \in Requested : completions[m].model_id = m
  /\ pc = "planner" => DOMAIN completions = {models[i] : i \in 1..(idx - 1)}

C1_Witness ==
  /\ PlannerReturned
  /\ Len(models) = 2
  /\ outcome[models[1]].kind = "raise"
  /\ outcome[models[2]].kind = "client_error"

\* C2: when the gateway call for model X failed, the entry of X in the
\* planner's mapping has an error-sentinel text, zero latency and zero token
\* counts, and the planner went on to return with X in the mapping.
C2_FailedModelHasZeroedSentinel ==
  \A m \in DOMAIN completions :
    Failed(m) =>
      /\ IsErrorSentinel(completions[m].content)
      /\ completions[m].response_time = 0
      /\ Get(completions[m].metrics, "promptTokens", 0) = 0
      /\ Get(completions[m].metrics, "completionTokens", 0) = 0
      /\ Get(completions[m].metrics, "totalTokens", 0) = 0

\* C3: a gateway call that never returns does not prevent the completions of
\* the other requested models from being produced: once a call hangs, every
\* other requested model eventually has its entry.
C3_HungCallDoesNotBlockOthers ==
  (pc = "hung") ~> (\A m \in Requested : Hung(m) \/ m \in DOMAIN completions)

\* C4: after a round, with the store answering, the log of every model whose
\* completion succeeded has gained exactly one assistant message, counting the
\* writes of the gateway path, of the planner and of the compare endpoint.
AssistantMessages(doc) ==
  Cardinality({i \in DOMAIN doc.messages : doc.messages[i].role = "assistant"})

C4_OneAssistantMessagePerSuccess ==
  (pc = "done" /\ storeUp) =>
    \A m \in Requested :
      Succeeded(m) =>
        AssistantMessages(threads[m]) = AssistantMessages(threadsAtStart[m]) + 1

CallsFor(kind) ==
  {i \in DOMAIN publishCalls : publishCalls[i].payload.agent = kind}

CarriesRound(payload) ==
  /\ payload.session_id = SessionId
  /\ payload.thread_id = ThreadId
  /\ payload.prompt = prompt
  /\ DOMAIN payload.responses = Requested
  /\ \A m \in Requested :
       /\ payload.responses[m].content = completions[m].content
       /\ payload.responses[m].metrics = completions[m].metrics

\* C5: for a completed round the dispatcher has made exactly one publish call
\* per agent kind, three in all, and each carries the round's session id,
\* thread id, prompt and complete model-to-completion mapping; no kind is
\* ever published twice.
C5_OnePublishPerAgentKind ==
  /\ \A kind \in AgentKinds : Cardinality(CallsFor(kind)) <= 1
  /\ \A i \in DOMAIN publishCalls : publishCalls[i].payload.agent \in AgentKinds
  /\ pc = "done" =>
       /\ Len(publishCalls) = 3
       /\ \A kind \in AgentKinds : Cardinality(CallsFor(kind)) = 1
       /\ \A i \in DOMAIN publishCalls : CarriesRound(publishCalls[i].payload)

C5_Witness ==
  /\ pc = "done"
  /\ Len(models) = 2
  /\ entry = "compare"
  /\ \E m \in Requested : Succeeded(m) /\ outcome[m].content # completions[m].content

\* C6: no event is published before the planner has returned an entry for
\* every requested model: whenever a publish call has been made, the key
\* set of its completion mapping is the set of requested models, and no call
\* is made while the planner runs or hangs.
C6_NoPublishBeforeFullRound ==
  /\ pc \in {"idle", "planner", "hung", "aggregate"} => publishCalls = <<>>
  /\ \A i \in DOMAIN publishCalls :
       /\ DOMAIN publishCalls[i].payload.responses = Requested
       /\ DOMAIN completions = Requested
       /\ \A m \in Requested : Succeeded(m) \/ Failed(m)

C6_Witness ==
  /\ publishCalls # <<>>
  /\ Len(models) = 2
  /\ Failed(models[1])
  /\ Succeeded(models[2])

\* C7: a failed publish is reported as FALSE and not raised, is not retried,
\* leaves the conversation messages as they were, and the remaining agent
\* kinds are still attempted.
C7_State ==
  /\ \A i \in DOMAIN publishCalls :
       ~publishCalls[i].posted =>
         /\ ~publishCalls[i].raised
         /\ publishCalls[i].result = FALSE
         /\ Cardinality(CallsFor(publishCalls[i].payload.agent)) = 1
  /\ pc # "failed"
  /\ pc = "done" => \A kind \in AgentKinds : CallsFor(kind) # {}

C7_Step ==
  pc = "publish" =>
    /\ threads' = threads
    /\ Len(publishCalls') = Len(publishCalls) + 1
    /\ pc' = IF Len(publishCalls') < 3 THEN "publish" ELSE "done"

C7_PublishFailureIsReportedNotRetried == [](C7_State) /\ [][C7_Step]_vars

C7_Witness ==
  /\ pc = "done"
  /\ ~publishCalls[1].result
  /\ publishCalls[2].result
  /\ ~publishCalls[3].result
  /\ \E m \in Requested : threads[m] # NoDoc

SuccessfulSaves(session_id, agent) ==
  {i \in DOMAIN saveCalls :
     /\ saveCalls[i].session_id = session_id
     /\ saveCalls[i].agent = agent
     /\ saveCalls[i].status \in {"created", "updated"}}

First(S) == CHOOSE i \in S : \A j \in S : i <= j

Last(S) == CHOOSE i \in S : \A j \in S : j <= i

\* C8: after save_agent_results has been called more than once for the same
\* (session_id, agent kind), exactly one record is stored under that key; it
\* holds the results of the latest call and the creation timestamp of the
\* first call, which created it.
C8_UpsertKeepsOneRecord ==
  \A sid \in SessionIds, agent \in AgentKinds :
    LET calls == SuccessfulSaves(sid, agent)
        found == Matches(agentResults, sid, agent, "")
    IN  calls # {} =>
          /\ Cardinality(found) = 1
          /\ saveCalls[First(calls)].status = "created"
          /\ \A i \in calls \ {First(calls)} : saveCalls[i].status = "updated"
          /\ \A k \in found :
               /\ agentResults[k].results = saveCalls[Last(calls)].results
               /\ agentResults[k].timestamp = saveCalls[First(calls)].now
               /\ agentResults[k].lastUpdated = saveCalls[Last(calls)].now

C8_Witness ==
  \E sid \in SessionIds, agent \in AgentKinds :
    LET calls == SuccessfulSaves(sid, agent)
    IN  /\ Cardinality(calls) = 2
        /\ saveCalls[First(calls)].results # saveCalls[Last(calls)].results
        /\ saveCalls[First(calls)].now < saveCalls[Last(calls)].now
        /\ sanitize_id(sid) # sid

\* C9: after any deliveries, repeated and reordered ones included, the store
\* holds at most one record per (session_id, agent kind), and the write of a
\* delivery that finds a record under its key does not fail on that record.
C9_RedeliveryIsAnUpsert ==
  /\ \A sid \in SessionIds, agent \in AgentKinds :
       Cardinality(Matches(agentResults, sid, agent, "")) <= 1
  /\ lastDelivery.status # "conflict"

\* C10: when a consumer has written a result for a key that already held a
\* record, the stored results are those of that newer write.
C10_LastWriteWins ==
  lastDelivery.status \in {"created", "conflict"} =>
    LET found == Matches(agentResults, lastDelivery.session_id, lastDelivery.agent, "")
    IN  /\ found # {}
        /\ \A k \in found : agentResults[k].results = lastDelivery.results

\* C11: a read made once the consumer of agent kind K of a round has run its
\* agent and reached the store returns a record for K, with the round's
\* thread id as filter and without it, whatever earlier rounds of the same
\* session have stored; the store answers the read.
C11_ReadAfterConsumerFindsRecord ==
  (lastCall.op = "get" /\ lastCall.up /\ lastCall.afterConsumer) =>
    lastCall.result # Null

\* C12: in a batch of events of a round, in any order, every event is
\* processed whatever happened to the events before it: an event whose own
\* agent ran and whose own write reached the store has its kind recorded
\* for the session, and a record it created carries the round's thread.
C12_FailureDoesNotCrossAgentKinds ==
  lastCall.op = "batch" =>
    /\ Len(lastCall.log) = lastCall.size
    /\ lastCall.response.events_processed = lastCall.size
    /\ \A i \in DOMAIN lastCall.log :
         (lastCall.log[i].ran /\ lastCall.log[i].up) =>
           /\ lastCall.log[i].status \in {"created", "conflict"}
           /\ Matches(agentResults, lastCall.session_id, lastCall.log[i].agent, "") # {}
           /\ lastCall.log[i].status = "created" =>
                Matches(agentResults, lastCall.session_id, lastCall.log[i].agent,
                        lastCall.thread_id) # {}

C12_Witness ==
  /\ lastCall.op = "batch"
  /\ lastCall.size = 3
  /\ lastCall.log[1].agent = "evaluator"
  /\ lastCall.log[1].status = "agent_failed"
  /\ lastCall.log[2].status = "created"
  /\ lastCall.log[3].status = "created"

\* C13: a run of process_agent_event for an event of kind K and session S
\* removes no record, and every record that is new or changed afterwards is
\* the record of kind K of session S.
C13_Step ==
  /\ DOMAIN agentResults \subseteq DOMAIN agentResults'
  /\ \A k \in DOMAIN agentResults' :
       \/ k \in DOMAIN agentResults /\ agentResults'[k] = agentResults[k]
       \/ /\ agentResults'[k].agent = lastDelivery'.agent
          /\ agentResults'[k].session_id = lastDelivery'.session_id

C14_GetAllBeforeAnyResult ==
  (lastCall.op = "get_all" /\ lastCall.up /\ ~lastCall.written) =>
    lastCall.response =
      [status_code |-> 200, body |-> [agent \in AgentKinds |-> Null]]

\* C15: GET /{session_id} in a state where some but not all agent kinds
\* have a record matching the request, with the store answering, responds
\* with the three keys, a stored payload for each kind that has a record
\* (an empty payload included) and null for each kind that has none.
C15_PartialRoundIsWellFormed ==
  ( /\ lastCall.op = "get_all"
    /\ lastCall.up
    /\ \E agent \in AgentKinds : lastCall.stored[agent] # {}
    /\ \E agent \in AgentKinds : lastCall.stored[agent] = {} ) =>
    /\ lastCall.response.status_code = 200
    /\ DOMAIN lastCall.response.body = AgentKinds
    /\ \A agent \in AgentKinds :
         IF lastCall.stored[agent] = {}
         THEN lastCall.response.body[agent] = Null
         ELSE /\ lastCall.response.body[agent] # Null
              /\ lastCall.response.body[agent][1] \in lastCall.stored[agent]

\* C16: get_agent_result returns a value for every query; a record it
\* returns has the session id and the agent kind of the query and, when the
\* query names a thread, that thread id; when no record matches it returns
\* None.
C16_ReadMatchesQueryOrNone ==
  lastCall.op = "get" =>
    /\ lastCall.result # Null =>
         /\ lastCall.result[1].session_id = lastCall.session_id
         /\ lastCall.result[1].agent = lastCall.agent
         /\ lastCall.thread_id # "" => lastCall.result[1].thread_id = lastCall.thread_id
    /\ ~lastCall.matching => lastCall.result = Null

C16_Witness ==
  /\ lastCall.op = "get"
  /\ lastCall.up
  /\ lastCall.thread_id = "t2"
  /\ lastCall.result = Null
  /\ Matches(agentResults, lastCall.session_id, lastCall.agent, "t1") # {}
  /\ \E k \in DOMAIN agentResults : agentResults[k].session_id # lastCall.session_id

\* C17: when the store fails during a read or during a consumer's write, the
\* caller of that operation gets an error status: a failed read does not
\* answer None or a record, the response to a batch with a failed write is
\* not "processed", and a failed upsert answers with the status "error".
C17_StoreFailureIsReported ==
  /\ (lastCall.op = "get" /\ ~lastCall.up) =>
       /\ lastCall.result # Null
       /\ lastCall.result \notin {Some(agentResults[k]) : k \in DOMAIN agentResults}
  /\ lastCall.op = "batch" =>
       ((\E i \in DOMAIN lastCall.log : lastCall.log[i].ran /\ ~lastCall.log[i].up)
          => lastCall.response.status # "processed")
  /\ (lastCall.op = "save" /\ ~lastCall.up) => lastCall.response.status = "error"

\* the judge's backend answered and JudgeAgent.run has returned
JudgeParsed == judge.pc = "returned" /\ judge.parsed.called

\* C18: _extract_scores returns a mapping, possibly empty, for every input and
\* never raises; when no parsing strategy succeeds it returns the empty
\* mapping; JudgeAgent.run returns without raising.
C18_ExtractScoresNeverRaises ==
  judge.pc = "returned" =>
    /\ ~judge.returned.raised
    /\ DOMAIN judge.returned.value = DOMAIN judge.model_outputs
    /\ judge.parsed.called =>
         LET candidate == extract_candidate(judge.backend.result_obj.text)
             no_strategy_succeeds ==
               \/ judge.backend.result_obj.shape = "dict_content_none"
               \/ ~candidate.found
               \/ /\ ~json_loads(Strip(candidate.json_content)).ok
                  /\ ~json_loads(clean_json_string(candidate.json_content)).ok
                  /\ manual_json(candidate.json_content) = EmptyDict
         IN  /\ ~judge.parsed.raised
             /\ \A key \in DOMAIN judge.parsed.value :
                  DOMAIN judge.parsed.value[key] =
                    {"personalization", "relevance", "fluency", "coherence",
                     "creativity", "reasons"}
             /\ no_strategy_succeeds => judge.parsed.value = EmptyDict

\* a candidate was extracted, no strategy could parse it, the empty mapping
\* was returned and the run returned the round's models
C18_Witness ==
  /\ JudgeParsed
  /\ judge.parsed.stages = <<"braces", "strip", "clean", "manual">>
  /\ manual_json(extract_candidate(judge.backend.result_obj.text).json_content) = EmptyDict
  /\ judge.parsed.value = EmptyDict
  /\ ~judge.returned.raised
  /\ judge.returned.value = judge.model_outputs

\* the scores of a text parsed as JSON as it stands
DirectParse(text) ==
  LET parsed_json == json_loads(Strip(text))
      scores == structured_scores(parsed_json.val)
  IN  IF parsed_json.ok /\ ~scores.raised THEN scores.value ELSE EmptyDict

\* C19: the strategies are tried in the order direct parse, fenced-block or
\* brace extraction, cleanup, regex reconstruction; an answer that is itself
\* valid JSON is accepted by the direct parse, so its scores are those of
\* parsing it as it stands.
C19_ValidJsonIsParsedDirectly ==
  (JudgeParsed /\ judge.backend.result_obj.shape = "str"
     /\ json_loads(Strip(judge.backend.result_obj.text)).ok) =>
    judge.parsed.value = DirectParse(judge.backend.result_obj.text)

\* C20: for well-formed JSON wrapped in a fenced block of kind json the
\* parser returns the scores of parsing the inner JSON directly.
C20_FencedEqualsInner ==
  \A inner \in WellFormedJson :
    (JudgeParsed /\ judge.backend.result_obj.text = Fenced(inner)) =>
      judge.parsed.value = DirectParse(inner)

\* the five dimension scores of every model of a result
DimensionScores(value) ==
  [model_id \in DOMAIN value |-> [d \in Dimensions |-> value[model_id][d]]]

\* C21: for JSON that contains escaped newlines or quotes and is preceded by
\* a stray leading byte, the parser, through its cleanup stage, recovers the
\* per-model dimension scores of the clean JSON.
C21_CleanupRecoversScores ==
  \A inner \in WellFormedJson :
    (JudgeParsed /\ judge.backend.result_obj.text = WithStrayByte(inner)
       /\ \E i \in DOMAIN inner : inner[i] = BSL) =>
      DimensionScores(judge.parsed.value) = DimensionScores(DirectParse(inner))

\* C22: for a text without valid JSON in which a model is named and a
\* "dimension": number fragment occurs, the parser returns a non-empty
\* mapping with the recovered scores of that model.
C22_FragmentsAreRecovered ==
  LET text == judge.backend.result_obj.text
      candidate == extract_candidate(text)
      no_valid_json ==
        /\ ~json_loads(Strip(text)).ok
        /\ ~json_loads(Strip(candidate.json_content)).ok
        /\ ~json_loads(clean_json_string(candidate.json_content)).ok
  IN  (JudgeParsed /\ judge.backend.result_obj.shape = "str" /\ no_valid_json
         /\ model_patterns(text, 1) # <<>>
         /\ score_matches(text, 1, EmptyDict) # EmptyDict) =>
        /\ judge.parsed.value # EmptyDict
        /\ \A i \in DOMAIN model_patterns(text, 1) :
             model_patterns(text, 1)[i] \in DOMAIN judge.parsed.value

\* C23: every model entry the parser returns has the five dimensions as
\* integers and a reasons value that is a mapping, empty when reasons is
\* absent or not a mapping; an entry that is not an object is skipped and
\* the other entries are returned.
C23_EntriesAreWellFormed ==
  JudgeParsed =>
    \A model_id \in DOMAIN judge.parsed.value :
      /\ \A d \in Dimensions : judge.parsed.value[model_id][d] \in Nat
      /\ judge.parsed.value[model_id].reasons.type = "dict"

\* C24: in a round where the gateway call of one model raised, the planner
\* returns the error sentinel for that model, and neither the evaluator nor
\* the judge scores the sentinel.
C24_ErrorSentinelIsNotScored ==
  /\ evaluator.pc = "returned" =>
       \A model_id \in DOMAIN evaluator.model_outputs :
         IsErrorSentinel(evaluator.model_outputs[model_id].content) =>
           "comparison" \notin DOMAIN evaluator.returned[model_id].metrics
  /\ judge.pc = "returned" =>
       \A model_id \in DOMAIN judge.model_outputs :
         IsErrorSentinel(judge.model_outputs[model_id].content) =>
           /\ \A section \in judge.user_prompt.responses : section.model_id # model_id
           /\ "judgeScores" \notin DOMAIN judge.returned.value[model_id].metrics

\* C25: the evaluator attaches a metrics entry to exactly the models whose
\* completion text is not empty, when the scoring call succeeds, and to none
\* otherwise; a model with an empty text stays in the mapping without one.
C25_MetricsForNonEmptyTexts ==
  evaluator.pc = "returned" =>
    /\ DOMAIN evaluator.returned = DOMAIN evaluator.model_outputs
    /\ \A model_id \in DOMAIN evaluator.returned :
         LET scored == "comparison" \in DOMAIN evaluator.returned[model_id].metrics
             text == Strip(evaluator.model_outputs[model_id].content)
         IN  /\ evaluator.returned[model_id].content =
                  evaluator.model_outputs[model_id].content
             /\ scored => /\ text # <<>>
                          /\ evaluator.returned[model_id].metrics["comparison"].model_id
                               = model_id
             /\ (evaluator.fates.plugin = "ok" /\ Strip(evaluator.prompt) # <<>>
                   /\ text # <<>>) => scored

\* one model answered with white space only and has no entry, the other has
\* a text and an entry, and both are in the returned mapping
C25_Witness ==
  /\ evaluator.pc = "returned"
  /\ evaluator.model_outputs["gpt4"].content = <<" ">>
  /\ "comparison" \notin DOMAIN evaluator.returned["gpt4"].metrics
  /\ "comparison" \in DOMAIN evaluator.returned["phi4"].metrics
  /\ DOMAIN evaluator.returned = {"gpt4", "phi4"}

C28_OneContextPerModel ==
  reflection.pc = "returned" =>
    LET event == reflection.event
        key == <<event.session_id, <<"reflection", event.session_id>>>>
    IN  /\ DOMAIN reflection.calls = DOMAIN event.responses
        /\ \A model_id \in DOMAIN reflection.calls :
             /\ reflection.calls[model_id].model_id = model_id
             /\ reflection.calls[model_id].query = event.responses[model_id].content
        /\ reflection.status = "created" =>
             /\ key \in DOMAIN agentResults
             /\ DOMAIN agentResults[key].results = DOMAIN event.responses
             /\ \A model_id \in DOMAIN event.responses :
                  agentResults[key].results[model_id] = reflection.calls[model_id].context

\* a reflection event with two models was stored; one model's context has
\* memory lines
C28_Witness ==
  /\ reflection.pc = "returned"
  /\ reflection.status = "created"
  /\ DOMAIN reflection.event.responses = {"gpt4", "custom"}
  /\ LET key == <<reflection.event.session_id, <<"reflection", reflection.event.session_id>>>>
     IN  /\ DOMAIN agentResults[key].results = {"gpt4", "custom"}
         /\ Len(agentResults[key].results["gpt4"]) = 2

\* C29: after any sequence of save_conversation_message calls made one after
\* another, no log holds two consecutive assistant messages with the same
\* content.
ConsecutiveDuplicates(doc) ==
  {i \in 2..Len(doc.messages) :
     /\ doc.messages[i].role = "assistant"
     /\ doc.messages[i - 1].role = "assistant"
     /\ doc.messages[i].content = doc.messages[i - 1].content}

C29_NoConsecutiveDuplicateAssistant ==
  ~saves.overlapped =>
    \A model_id \in SaveModels : ConsecutiveDuplicates(threads[model_id]) = {}

\* every call so far ran alone; the log ends with an assistant message and
\* a second call with the same content was skipped
C29_Witness ==
  /\ ~saves.overlapped
  /\ \E w \in Writers :
       LET writer == saves.writers[w]
           log == threads[writer.model_id].messages
       IN  /\ writer.pc = "returned"
           /\ writer.status = "duplicate_skipped"
           /\ log # <<>>
           /\ log[Len(log)].role = "assistant"
           /\ log[Len(log)].content = writer.content

\* C30: two calls for the same log with the same assistant content that both
\* read the log before either wrote both pass the duplicate check: each is
\* reported as updated when the store takes its write, and neither as
\* duplicate_skipped.
SameMessage(one, other) ==
  /\ one.model_id = other.model_id
  /\ one.role = "assistant"
  /\ other.role = "assistant"
  /\ one.content = other.content

C30_ConcurrentWritersPassTheCheck ==
  \A w1, w2 \in Writers :
    LET one == saves.writers[w1]
        other == saves.writers[w2]
    IN  (/\ w1 # w2
         /\ one.pc = "returned"
         /\ other.pc = "returned"
         /\ SameMessage(one, other)
         /\ one.item # NoDoc
         /\ one.item = other.item
         /\ ~is_duplicate(one.item, "assistant", one.content)
         /\ ~one.failed
         /\ ~other.failed)
        => /\ one.status = "updated"
           /\ other.status = "updated"

\* both writers read the same log, both wrote, and both were told updated;
\* the log holds the message once
C30_Witness ==
  /\ saves.overlapped
  /\ saves.writers[1].pc = "returned"
  /\ saves.writers[2].pc = "returned"
  /\ SameMessage(saves.writers[1], saves.writers[2])
  /\ saves.writers[1].item # NoDoc
  /\ saves.writers[1].item = saves.writers[2].item
  /\ saves.writers[1].status = "updated"
  /\ saves.writers[2].status = "updated"
  /\ Len(threads[saves.writers[1].model_id].messages)
       = Len(saves.writers[1].item.messages) + 1

\* C31: the log of each (model, thread) is append-only, also when two writers
\* write the same log: every step leaves the log as it was or extends it, so
\* a message that was reported as saved stays in the log.
IsPrefix(earlier, later) ==
  /\ Len(earlier) <= Len(later)
  /\ SubSeq(later, 1, Len(earlier)) = earlier

C31_Step ==
  \A model_id \in SaveModels :
    IsPrefix(threads[model_id].messages, threads'[model_id].messages)

C31_LogIsAppendOnly == [][C31_Step]_vars

\* C32: a call is answered duplicate_skipped only when the new message is an
\* assistant's and the last message of the log is an assistant's with the
\* same content; in every other case, also after a user message with the
\* same content, the message is appended and the call is answered updated.
C32_SkipsOnlyAfterSameAssistantMessage ==
  \A w \in Writers :
    LET writer == saves.writers[w]
        log == writer.item.messages
        repeats == /\ writer.role = "assistant"
                   /\ log[Len(log)].role = "assistant"
                   /\ log[Len(log)].content = writer.content
    IN  (writer.pc = "returned" /\ ~writer.failed /\ writer.item # NoDoc) =>
          /\ writer.status = "duplicate_skipped" <=> repeats
          /\ ~repeats => writer.status = "updated"
\* C33: process_agent_event never raises to its caller, whatever the data of
\* the event: every item of a delivered list is processed and the endpoint
\* answers with the number of items
C33_NoEventStopsTheBatch ==
  lastCall.op = "data" =>
    /\ Len(lastCall.log) = Len(lastCall.body)
    /\ \A i \in DOMAIN lastCall.log : lastCall.log[i] # "raised"
    /\ lastCall.response = [status |-> "processed",
                            events_processed |-> Len(lastCall.body)]

\* an event that lacks one of agent, session_id, thread_id, prompt and
\* non-empty responses, or that names no agent kind
Incomplete(event) ==
  /\ IsMapping(event)
  /\ \/ event.agent \notin AgentKinds
     \/ event.session_id = <<>>
     \/ event.thread_id = ""
     \/ event.prompt = <<>>
     \/ event.responses = <<>>

IncompleteOnly(call) ==
  /\ call.op = "data"
  /\ \A i \in DOMAIN call.body : Incomplete(call.body[i])

\* C34: a delivery of events that lack a required field or name an unknown
\* agent kind returns before any agent is called and leaves the Aggregation
\* Store as it was
C34_Step ==
  (deliveries' # deliveries /\ IncompleteOnly(lastCall')) =>
    /\ agentResults' = agentResults
    /\ \A i \in DOMAIN lastCall'.body :
         lastCall'.log[i] \in {"missing_fields", "unsupported_agent"}

C34_IncompleteEventsChangeNothing == [][C34_Step]_vars

\* incomplete events of both sorts were delivered to a store that holds records
C34_Witness ==
  /\ IncompleteOnly(lastCall)
  /\ agentResults # <<>>
  /\ \E i \in DOMAIN lastCall.log : lastCall.log[i] = "missing_fields"
  /\ \E i \in DOMAIN lastCall.log : lastCall.log[i] = "unsupported_agent"

\* C35: the completion entries of a published event have every attribute the
\* evaluator reads, and the record the evaluator consumer stores for the
\* event holds a metrics entry for every model whose text is not empty
C35_PublishedEntriesAreScored ==
  (evaluator.pc = "stored" /\ evaluator.status = "created"
     /\ evaluator.fates.plugin = "ok") =>
    LET event == evaluator.event
        key == <<event.session_id, <<"evaluator", event.session_id>>>>
    IN  \A model_id \in DOMAIN event.responses :
          /\ {"content", "response_time", "metrics"}
               \subseteq DOMAIN event.responses[model_id]
          /\ Strip(event.responses[model_id].content) # <<>> =>
               "comparison" \in DOMAIN agentResults[key].results[model_id].metrics

\* the entry of a model after a scoring run: the entry it had, with at most
\* the one score added under the given key of its metrics
SameButScore(before, after, score_key) ==
  \/ after = before
  \/ /\ score_key \in DOMAIN after.metrics
     /\ after = [before EXCEPT !.metrics = (score_key :> after.metrics[score_key]) @@ @]

\* C36: JudgeAgent.run and EvaluatorAgent.run return a mapping with the key
\* set of the one they were given, also when they fail; scores go to models
\* of that mapping only, each model gets the scores reported under its own
\* id, and ids that only the backend names are dropped
C36_ScoresOnlyForModelsOfTheRound ==
  /\ judge.pc = "returned" =>
       /\ DOMAIN judge.returned.value = DOMAIN judge.model_outputs
       /\ \A model_id \in DOMAIN judge.model_outputs :
            /\ SameButScore(judge.model_outputs[model_id],
                            judge.returned.value[model_id], "judgeScores")
            /\ "judgeScores" \in DOMAIN judge.returned.value[model_id].metrics =>
                 /\ judge.parsed.called
                 /\ <<model_id>> \in DOMAIN judge.parsed.value
                 /\ judge.returned.value[model_id].metrics["judgeScores"]
                      = judge.parsed.value[<<model_id>>]
            /\ judge.backend.raised =>
                 judge.returned.value[model_id] = judge.model_outputs[model_id]
  /\ evaluator.pc = "returned" =>
       /\ DOMAIN evaluator.returned = DOMAIN evaluator.model_outputs
       /\ \A model_id \in DOMAIN evaluator.model_outputs :
            /\ SameButScore(evaluator.model_outputs[model_id],
                            evaluator.returned[model_id], "comparison")
            /\ "comparison" \in DOMAIN evaluator.returned[model_id].metrics =>
                 evaluator.returned[model_id].metrics["comparison"].model_id = model_id
            /\ evaluator.fates.plugin # "ok" =>
                 evaluator.returned[model_id] = evaluator.model_outputs[model_id]

\* the judge's backend scored gpt4 and phi4 in a round of gpt4 and custom:
\* gpt4 has its scores and phi4 is not in the returned mapping
C36_Witness ==
  /\ judge.pc = "returned"
  /\ DOMAIN judge.model_outputs = {"gpt4", "custom"}
  /\ judge.parsed.called
  /\ {<<"gpt4">>, <<"phi4">>} \subseteq DOMAIN judge.parsed.value
  /\ "judgeScores" \in DOMAIN judge.returned.value["gpt4"].metrics
  /\ DOMAIN judge.returned.value = {"gpt4", "custom"}

\* C37: when the regex reconstruction produces the result, its keys are the
\* model headers of the answer and each model has the dimension scores of
\* its own block; for an answer that holds well-formed JSON these are the
\* scores of parsing that JSON
C37_RegexKeepsScoresPerModel ==
  \A inner \in WellFormedJson :
    (JudgeParsed /\ judge.backend.result_obj.text = WithStrayByte(inner)
       /\ "manual" \in Range(judge.parsed.stages)
       /\ judge.parsed.value # EmptyDict) =>
      /\ DOMAIN judge.parsed.value = DOMAIN DirectParse(inner)
      /\ \A model_id \in DOMAIN judge.parsed.value \cap DOMAIN DirectParse(inner) :
           \A d \in Dimensions :
             judge.parsed.value[model_id][d] = DirectParse(inner)[model_id][d]

\* the records of the container a query for the thread has in scope, scored
\* against the query's embedding, that reach min_relevance
Qualifying(container, thread_id, query_embedding) ==
  {i \in DOMAIN container :
     /\ container[i].thread_id = thread_id
     /\ container[i].embedding # <<>>
     /\ LET similarity == calculate_similarity(query_embedding, container[i].embedding)
        IN  ~similarity.nan /\ similarity.val >= MinRelevance}

C39_NoAssistantMessageAfterFailure ==
  (pc = "done" /\ storeUp) =>
    \A m \in Requested :
      Failed(m) =>
        /\ AssistantMessages(threads[m]) = AssistantMessages(threadsAtStart[m])
        /\ \A i \in DOMAIN threads[m].messages :
             ~IsErrorSentinel(threads[m].messages[i].content)

\* the sum of tokenCount over the messages of a log
RECURSIVE TokenSum(_)
TokenSum(messages) ==
  IF messages = <<>> THEN 0
  ELSE messages[1].tokenCount + TokenSum(Tail(messages))

\* C40: whatever messages of the roles user and assistant were saved one
\* after another, the tokenCount of a thread's metadata is the sum of the
\* tokenCount of its stored messages and also promptTokens + completionTokens
C40_TokenCountersAgree ==
  \A m \in ModelIds :
    threads[m] # NoDoc =>
      /\ threads[m].metadata.tokenCount = TokenSum(threads[m].messages)
      /\ threads[m].metadata.tokenCount
           = threads[m].metadata.promptTokens + threads[m].metadata.completionTokens

\* a round has ended with a log of user and assistant messages that carries
\* prompt tokens and completion tokens
C40_Witness ==
  /\ pc = "done"
  /\ \E m \in Requested :
       /\ Len(threads[m].messages) >= 3
       /\ threads[m].metadata.promptTokens > 0
       /\ threads[m].metadata.completionTokens > threads[m].metadata.promptTokens

====
